---------------------------- MODULE Spec2Model ----------------------------
(***************************************************************************)
(* A model of the scoring-and-selection core of the AI-text humanizer:     *)
(*                                                                         *)
(*   - IterativeHumanizer.humanize_until_passing, the refinement loop of   *)
(*     backend/utils/advanced_preprocessor.py;                             *)
(*   - OutputSelector, the candidate selector of backend/utils/selector.py *)
(*     (weighted_voting, diversity_selection, sentence_level_mixing,       *)
(*     ensemble_blend), with the composite scorer it calls;                *)
(*   - AdvancedTextMetrics.calculate_comprehensive_score, the scorer of    *)
(*     backend/utils/advanced_metrics.py and of advanced_metrics_v2.py,    *)
(*     with the perplexity oracle and the part-of-speech tagger it uses;   *)
(*   - RecursiveHumanizer of backend/utils/recursive_humanizer.py: the     *)
(*     multi-pass loop recursive_paraphrase, adaptive_recursive_           *)
(*     humanization, and multi_model_cascade with _blend_outputs;          *)
(*   - get_ensemble and get_advanced_ensemble, the lazily created backend  *)
(*     of backend/app.py and backend/app_hf.py, under concurrent requests; *)
(*   - the length filter of AdvancedEnsembleHumanizer.humanize in          *)
(*     backend/models/advanced_ensemble.py.                                *)
(*                                                                         *)
(* The parts share no state.  Each has its own initial predicate and       *)
(* next-state relation; the variables of the other parts stay idle.        *)
(***************************************************************************)
EXTENDS Integers, Sequences, FiniteSets, TLC

VARIABLES
    \* ---- IterativeHumanizer (advanced_preprocessor.py:325-351) ----
    target_score,     \* self.target_score
    max_iterations,   \* self.max_iterations
    pc,               \* position in humanize_until_passing
    text,             \* the argument `text`
    current_text,     \* local current_text
    i,                \* the for-loop index
    iterations,       \* local iterations
    metrics,          \* local metrics (the last scoring result inside the loop)
    ret,              \* the returned tuple
    n_score,          \* number of calls of metrics_calculator so far
    n_transform,      \* number of calls of comprehensive_humanization so far
    trail,            \* the texts the call has held: the input, then each transformation's result
    all_below,        \* whether every scoring call so far returned a score below target_score
    \* ---- OutputSelector (selector.py) ----
    outputs,          \* the argument `outputs`: a list of {'text', 'model'} dicts
    metricsOf,        \* what calculate_comprehensive_score measures on each text
    call,             \* the selector operation called last, with its arguments
    mixed_text,       \* sentence_level_mixing's local list mixed_text
    result,           \* what that operation returned
    \* ---- AdvancedTextMetrics (advanced_metrics.py, advanced_metrics_v2.py) ----
    variant,          \* which module's scorer runs: "v1" or "v2"
    nltk_available,   \* the module global NLTK_AVAILABLE
    capability,       \* what the environment does: whether GPT-2 loads, whether a
                      \* GPT-2 evaluation throws, whether the tagger throws
    gpt2_calculator,  \* v2: whether an AdvancedTextMetrics instance holds the calculator
    gpt2_model,       \* v2: GPT2PerplexityCalculator._model, "None" or "gpt2"
    raw,              \* what the metric formulas yield on each text past their guards
    earlier,          \* a scoring call made before, kept for comparison
    latest,           \* the last scoring call: arguments, local composite, returned
                      \* value, and whether a call with other arguments came between
                      \* the earlier call and this one
    \* ---- RecursiveHumanizer (recursive_humanizer.py:8-90) ----
    min_passes,       \* self.min_passes
    max_passes,       \* self.max_passes
    rp_pc,            \* position in recursive_paraphrase
    rp_target,        \* the argument target_score
    n_functions,      \* len(paraphrase_functions)
    num_passes,       \* local num_passes, drawn by random.randint
    pass_num,         \* the for-loop index
    rp_text,          \* local current_text
    pass_history,     \* local pass_history
    n_paraphrase,     \* number of paraphrase functions called so far
    rp_raised,        \* for each of those calls in order, whether it raised
    rp_ret,           \* the returned tuple, or the exception that left the call
    \* ---- the lazily created backend (app.py:11-26, app_hf.py:14-29) ----
    app_module,       \* which application runs: "app" or "app_hf"
    ensemble,         \* the module global ensemble / advanced_ensemble: None or an instance
    n_constructed,    \* number of runs of the ensemble constructor so far
    requests,         \* each request thread: where it is in its handler, the
                      \* instance it constructed, the instance it was handed
    handed,           \* the instances get_ensemble has returned so far
    \* ---- RecursiveHumanizer.adaptive_recursive_humanization (recursive_humanizer.py:185-255) ----
    ad_pc,            \* position in adaptive_recursive_humanization
    ad_target,        \* the argument target_score
    max_attempts,     \* the argument max_attempts
    ad_text,          \* local current_text
    attempt,          \* the for-loop index
    attempt_history,  \* local attempt_history
    ad_params,        \* local params
    ad_paraphrased,   \* local paraphrased
    ad_humanized,     \* local humanized
    ad_ret,           \* the returned tuple, or the exception that left the call
    \* ---- RecursiveHumanizer.multi_model_cascade, _blend_outputs (recursive_humanizer.py:92-163) ----
    model_outputs,    \* the argument model_outputs: a list of texts
    cascade_pc,       \* position in multi_model_cascade
    top_outputs,      \* local top_outputs
    blend_texts,      \* the argument `texts` of _blend_outputs
    blended,          \* local blended of _blend_outputs: a list of sentences
    cascade_ret,      \* the string _blend_outputs returned, then the returned
                      \* tuple, or the exception that left the call
    \* ---- AdvancedEnsembleHumanizer.humanize (advanced_ensemble.py:493-562) ----
    hz_pc,            \* position in humanize
    input_word_count, \* local input_word_count
    all_outputs,      \* local all_outputs: a list of {'text', 'model'} dicts
    min_length,       \* local min_length
    filtered_outputs, \* local filtered_outputs
    hz_ret            \* the exception that left the call, if one did

loopVars == <<target_score, max_iterations, pc, text, current_text, i, iterations,
              metrics, ret, n_score, n_transform, trail, all_below>>
selVars  == <<outputs, metricsOf, call, mixed_text, result>>
scoreVars == <<variant, nltk_available, capability, gpt2_calculator, gpt2_model,
               raw, earlier, latest>>
recVars == <<min_passes, max_passes, rp_pc, rp_target, n_functions, num_passes,
             pass_num, rp_text, pass_history, n_paraphrase, rp_raised, rp_ret>>
lazyVars == <<app_module, ensemble, n_constructed, requests, handed>>
adVars == <<ad_pc, ad_target, max_attempts, ad_text, attempt, attempt_history,
            ad_params, ad_paraphrased, ad_humanized, ad_ret>>
cascadeVars == <<model_outputs, cascade_pc, top_outputs, blend_texts, blended,
                 cascade_ret>>
humanizeVars == <<hz_pc, input_word_count, all_outputs, min_length, filtered_outputs,
                  hz_ret>>
vars == <<loopVars, selVars, scoreVars, recVars,
          lazyVars, adVars, cascadeVars, humanizeVars>>

\* What a step of one part leaves alone.
notLoopVars == <<selVars, scoreVars, recVars, lazyVars,
                 adVars, cascadeVars, humanizeVars>>
notSelVars == <<loopVars, scoreVars, recVars, lazyVars,
                adVars, cascadeVars, humanizeVars>>
notScoreVars == <<loopVars, selVars, recVars, lazyVars,
                  adVars, cascadeVars, humanizeVars>>
notRecVars == <<loopVars, selVars, scoreVars, lazyVars,
                adVars, cascadeVars, humanizeVars>>
notLazyVars == <<loopVars, selVars, scoreVars, recVars,
                 adVars, cascadeVars, humanizeVars>>
notAdVars == <<loopVars, selVars, scoreVars, recVars,
               lazyVars, cascadeVars, humanizeVars>>
notCascadeVars == <<loopVars, selVars, scoreVars, recVars,
                    lazyVars, adVars, humanizeVars>>
notHumanizeVars == <<loopVars, selVars, scoreVars, recVars,
                     lazyVars, adVars, cascadeVars>>

---------------------------------------------------------------------------
(* Bounds of the model.                                                    *)

\* Texts of the refinement loop are opaque values 0..MaxText.
MaxText == 2
\* The scoring function of the refinement loop returns scores 0..MaxScore.
MaxScore == 2
\* max_iterations ranges over 0..MaxIter.
MaxIter == 3

Texts  == 0..MaxText
Scores == 0..MaxScore

---------------------------------------------------------------------------
(* IterativeHumanizer.humanize_until_passing                               *)

\* The value of a local that has not been bound yet.
Unbound == [unbound |-> TRUE]

\* What one call of metrics_calculator(t) may return: a dict with any
\* composite_score, or a dict without that key.  The fields call, scored_text
\* and scored_at record which call produced the dict: the k-th call, made on
\* text t, the text the call held after `at` - 1 transformations.
ScoreResults(t, k, at) ==
    {[composite_score |-> s, scored_text |-> t, call |-> k, scored_at |-> at] :
        s \in Scores}
        \cup {[scored_text |-> t, call |-> k, scored_at |-> at]}

\* metrics.get('composite_score', 0)
GetCompositeScore(m) ==
    IF "composite_score" \in DOMAIN m THEN m.composite_score ELSE 0

\* `for i in range(self.max_iterations)`: the loop body runs while i is in range.
InRangeOffByOne(idx, n) == idx <= n
InRange(idx, n) == idx < n

\* `iterations = i + 1`
IterationCountFromZero(idx) == idx
IterationCount(idx) == idx + 1

\* `if current_score >= self.target_score`
PassesStrict(score, target) == score > target
Passes(score, target) == score >= target

\* What comprehensive_humanization(t) may return: it is randomized, so any text.
ComprehensiveHumanization(t) == Texts

\* The metrics returned when the loop runs out: the fresh final_metrics, not
\* the loop's last metrics.
ExhaustedMetricsStale(loop_metrics, final_metrics) == loop_metrics
ExhaustedMetrics(loop_metrics, final_metrics) == final_metrics

\* The text returned when the loop runs out, line 351: current_text, whatever
\* the earlier scores were.  The other candidate is the better-scored of the
\* last two texts the call scored.
BestSoFarText(cur, loop_metrics, final_metrics) ==
    IF /\ "scored_text" \in DOMAIN loop_metrics
       /\ GetCompositeScore(loop_metrics) > GetCompositeScore(final_metrics)
    THEN loop_metrics.scored_text
    ELSE cur
ExhaustedText(cur, loop_metrics, final_metrics) == cur

\* The number of scoring calls made once the final scoring of line 349 is done.
WithoutFinalScoring(n) == n
AfterFinalScoring(n) == n + 1

\* The for-loop's step to the next index.
NextIndexStuck(idx) == idx
NextIndex(idx) == idx + 1

\* No call makes more than CallCap transformation or scoring calls in the model.
CallCap == MaxIter + 2

\* IterativeHumanizer(target_score, max_iterations): the object after __init__.
LoopInit ==
    /\ target_score \in 0..(MaxScore + 1)
    /\ max_iterations \in 0..MaxIter
    /\ pc = "idle"
    /\ text = 0
    /\ current_text = 0
    /\ i = 0
    /\ iterations = 0
    /\ metrics = Unbound
    /\ ret = Unbound
    /\ n_score = 0
    /\ n_transform = 0
    /\ trail = <<>>
    /\ all_below = TRUE

LoopIdle ==
    /\ target_score = 0
    /\ max_iterations = 0
    /\ pc = "idle"
    /\ text = 0
    /\ current_text = 0
    /\ i = 0
    /\ iterations = 0
    /\ metrics = Unbound
    /\ ret = Unbound
    /\ n_score = 0
    /\ n_transform = 0
    /\ trail = <<>>
    /\ all_below = TRUE

\* No scorer is in use: the modules are imported, nothing was scored.
ScoreIdle ==
    /\ variant = "v1"
    /\ nltk_available = TRUE
    /\ capability = [gpt2_loads |-> TRUE, gpt2_throws |-> FALSE, tagger_throws |-> FALSE]
    /\ gpt2_calculator = FALSE
    /\ gpt2_model = "None"
    /\ raw = <<>>
    /\ earlier = [op |-> "none"]
    /\ latest = [op |-> "none", between |-> FALSE]

\* No RecursiveHumanizer is in use.
RecIdle ==
    /\ min_passes = 0
    /\ max_passes = 0
    /\ rp_pc = "idle"
    /\ rp_target = 0
    /\ n_functions = 0
    /\ num_passes = 0
    /\ pass_num = 0
    /\ rp_text = 0
    /\ pass_history = <<>>
    /\ n_paraphrase = 0
    /\ rp_raised = <<>>
    /\ rp_ret = Unbound

\* The value None of the global before the first construction.
NoEnsemble == [class |-> "NoneType", id |-> 0]

\* No application runs: no request thread exists.
LazyIdle ==
    /\ app_module = "app"
    /\ ensemble = NoEnsemble
    /\ n_constructed = 0
    /\ requests = <<>>
    /\ handed = {}

\* No adaptive humanization is in progress.
AdIdle ==
    /\ ad_pc = "idle"
    /\ ad_target = 0
    /\ max_attempts = 0
    /\ ad_text = 0
    /\ attempt = 0
    /\ attempt_history = <<>>
    /\ ad_params = Unbound
    /\ ad_paraphrased = Unbound
    /\ ad_humanized = Unbound
    /\ ad_ret = Unbound

\* No cascade is in progress.
CascadeIdle ==
    /\ model_outputs = <<>>
    /\ cascade_pc = "idle"
    /\ top_outputs = <<>>
    /\ blend_texts = <<>>
    /\ blended = <<>>
    /\ cascade_ret = Unbound

\* No call of humanize is in progress.
HumanizeIdle ==
    /\ hz_pc = "idle"
    /\ input_word_count = 0
    /\ all_outputs = <<>>
    /\ min_length = 0
    /\ filtered_outputs = <<>>
    /\ hz_ret = Unbound

\* humanize_until_passing(text, metrics_calculator): entry, lines 334-335.
HumanizeUntilPassing(t) ==
    /\ pc = "idle"
    /\ text' = t
    /\ current_text' = t
    /\ iterations' = 0
    /\ i' = 0
    /\ trail' = <<t>>
    /\ pc' = "for"
    /\ UNCHANGED <<target_score, max_iterations, metrics, ret, n_score, n_transform,
                   all_below>>
    /\ UNCHANGED notLoopVars

\* One pass of the loop up to the test of the score, lines 337-345.
LoopScore ==
    /\ pc = "for"
    /\ InRange(i, max_iterations)
    /\ n_score < CallCap
    /\ iterations' = IterationCount(i)
    /\ n_score' = n_score + 1
    /\ \E m \in ScoreResults(current_text, n_score + 1, Len(trail)) :
        /\ metrics' = m
        /\ all_below' = (all_below /\ GetCompositeScore(m) < target_score)
        /\ IF Passes(GetCompositeScore(m), target_score)
           THEN /\ ret' = [text |-> current_text, metrics |-> m,
                           iterations |-> iterations']
                /\ pc' = "converged"
           ELSE /\ ret' = ret
                /\ pc' = "transform"
    /\ UNCHANGED <<target_score, max_iterations, text, current_text, i,
                   n_transform, trail>>
    /\ UNCHANGED notLoopVars

\* The transformation that ends a pass, line 347, and the loop's step.
LoopTransform ==
    /\ pc = "transform"
    /\ n_transform < CallCap
    /\ \E t \in ComprehensiveHumanization(current_text) :
        /\ current_text' = t
        /\ trail' = Append(trail, t)
    /\ n_transform' = n_transform + 1
    /\ i' = NextIndex(i)
    /\ pc' = "for"
    /\ UNCHANGED <<target_score, max_iterations, text, iterations, metrics, ret,
                   n_score, all_below>>
    /\ UNCHANGED notLoopVars

\* The loop ran out: the final scoring and the return, lines 349-351.
LoopExhausted ==
    /\ pc = "for"
    /\ ~InRange(i, max_iterations)
    /\ n_score < CallCap
    /\ n_score' = AfterFinalScoring(n_score)
    /\ \E m \in ScoreResults(current_text, n_score + 1, Len(trail)) :
        /\ ret' = [text |-> ExhaustedText(current_text, metrics, m),
                   metrics |-> ExhaustedMetrics(metrics, m),
                   iterations |-> iterations]
        /\ all_below' = (all_below /\ GetCompositeScore(m) < target_score)
    /\ pc' = "exhausted"
    /\ UNCHANGED <<target_score, max_iterations, text, current_text, i,
                   iterations, metrics, n_transform, trail>>
    /\ UNCHANGED notLoopVars

---------------------------------------------------------------------------
(* Texts of the selector: a text is a sequence of characters.              *)

\* The characters `\s` matches and str.strip() removes.
Whitespace == {" ", "\n"}
\* The characters of the class [.!?] in the sentence splitter.
Terminators == {".", "!", "?"}

\* The first index >= k of t that holds no whitespace, Len(t) + 1 if none.
RECURSIVE SkipWhitespace(_, _)
SkipWhitespace(t, k) ==
    IF k <= Len(t) /\ t[k] \in Whitespace THEN SkipWhitespace(t, k + 1) ELSE k

\* re.split(r'(?<=[.!?])\s+', t): a separator is a maximal run of whitespace
\* that directly follows a terminator.  k scans t, cur is the piece being
\* read, acc the pieces read so far.
RECURSIVE ReSplitFrom(_, _, _, _)
ReSplitFrom(t, k, cur, acc) ==
    IF k > Len(t) THEN Append(acc, cur)
    ELSE IF t[k] \in Whitespace /\ k > 1 /\ t[k - 1] \in Terminators
         THEN ReSplitFrom(t, SkipWhitespace(t, k), <<>>, Append(acc, cur))
         ELSE ReSplitFrom(t, k + 1, Append(cur, t[k]), acc)

ReSplit(t) == ReSplitFrom(t, 1, <<>>, <<>>)

\* str.strip()
RECURSIVE LStrip(_)
LStrip(t) ==
    IF t # <<>> /\ Head(t) \in Whitespace THEN LStrip(Tail(t)) ELSE t

RECURSIVE RStrip(_)
RStrip(t) ==
    IF t # <<>> /\ t[Len(t)] \in Whitespace
    THEN RStrip(SubSeq(t, 1, Len(t) - 1))
    ELSE t

Strip(t) == RStrip(LStrip(t))

\* [s.strip() for s in sentences if s.strip()]
RECURSIVE StripNonEmpty(_)
StripNonEmpty(pieces) ==
    IF pieces = <<>> THEN <<>>
    ELSE LET st == Strip(Head(pieces))
         IN  (IF st = <<>> THEN <<>> ELSE <<st>>) \o StripNonEmpty(Tail(pieces))

\* The sentences of a text, selector.py:105-106.
SplitSentences(t) == StripNonEmpty(ReSplit(t))

\* ' '.join(pieces)
RECURSIVE JoinSpace(_)
JoinSpace(pieces) ==
    IF pieces = <<>> THEN <<>>
    ELSE IF Len(pieces) = 1 THEN Head(pieces)
    ELSE Head(pieces) \o <<" ">> \o JoinSpace(Tail(pieces))

\* max(len(s) for s in all_sentences), for a non-empty list.
LenOfFirst(lists) == IF lists = <<>> THEN 0 ELSE Len(Head(lists))
RECURSIVE MaxLen(_)
MaxLen(lists) ==
    IF lists = <<>> THEN 0
    ELSE LET rest == MaxLen(Tail(lists))
         IN  IF Len(Head(lists)) > rest THEN Len(Head(lists)) ELSE rest

---------------------------------------------------------------------------
(* The composite scorer the selector calls:                                *)
(* AdvancedTextMetrics.calculate_comprehensive_score(text, use_gpt2=False) *)
(* of backend/utils/advanced_metrics.py.  Metric values are in hundredths  *)
(* of a point (0..10000) and so are the weights, so the composite is in    *)
(* ten-thousandths of a point (0..1000000); round(x, 2) turns it into the  *)
(* reported composite_score, in hundredths (90.00 is 9000).                *)

\* What the metric functions measure on a text: the six metrics, the
\* repetition score, and the two stylometric features the scorer reads
\* (the average sentence length in words, the function-word ratio in
\* hundredths).
Measurement(p, b, bi, tri, pos, coh, rep, asl, fwr) ==
    [perplexity |-> p, burstiness |-> b, bigram_entropy |-> bi,
     trigram_entropy |-> tri, pos_entropy |-> pos, semantic_coherence |-> coh,
     repetition_score |-> rep, avg_sentence_length |-> asl,
     function_word_ratio |-> fwr]

\* The measurements a text may have in the model.  Their composite scores
\* are 30.00, 55.00, 90.00, 91.25, 90.00 (95.00 less one penalty) and 0.00
\* (clamped from below).
Measurements ==
    { Measurement(3000, 3000, 3000, 3000, 3000, 3000, 7000, 15, 40),
      Measurement(5500, 5500, 5500, 5500, 5500, 5500, 4500, 15, 40),
      Measurement(9000, 9000, 9000, 9000, 9000, 9000, 1000, 15, 40),
      Measurement(10000, 8500, 9000, 9000, 9000, 9000, 1000, 15, 40),
      Measurement(9500, 9500, 9500, 9500, 9500, 9500, 500, 30, 40),
      Measurement(0, 0, 0, 0, 0, 0, 10000, 30, 20) }

\* The weighted sum of advanced_metrics.py:360-368.
CompositeSum(m) ==
    m.perplexity * 25 + m.burstiness * 25 + m.bigram_entropy * 15
        + m.trigram_entropy * 10 + m.pos_entropy * 10
        + m.semantic_coherence * 10 + (10000 - m.repetition_score) * 5

\* The stylometric penalties of advanced_metrics.py:371-374.
Penalties(m) ==
    (IF m.avg_sentence_length > 25 THEN 50000 ELSE 0)
        + (IF m.function_word_ratio < 30 THEN 50000 ELSE 0)

\* composite = max(0, min(100, composite))
Clamp(x) == IF x < 0 THEN 0 ELSE IF x > 1000000 THEN 1000000 ELSE x

Composite(m) == Clamp(CompositeSum(m) - Penalties(m))

DetectionResistanceSwapped(c) ==
    IF c > 750000 THEN "MEDIUM" ELSE IF c > 500000 THEN "HIGH" ELSE "LOW"

\* 'HIGH' if composite > 75 else 'MEDIUM' if composite > 50 else 'LOW'
DetectionResistance(c) ==
    IF c > 750000 THEN "HIGH" ELSE IF c > 500000 THEN "MEDIUM" ELSE "LOW"

\* round(x, 2) of a value in ten-thousandths, in hundredths; a tie goes to
\* the even neighbour.
Round2(x) ==
    LET q == x \div 100
        r == x % 100
    IN  IF r < 50 THEN q
        ELSE IF r > 50 THEN q + 1
        ELSE IF q % 2 = 0 THEN q ELSE q + 1

\* The dict calculate_comprehensive_score returns for a text measured as m.
ComprehensiveScore(m) ==
    [perplexity |-> m.perplexity, burstiness |-> m.burstiness,
     bigram_entropy |-> m.bigram_entropy, trigram_entropy |-> m.trigram_entropy,
     pos_entropy |-> m.pos_entropy, semantic_coherence |-> m.semantic_coherence,
     repetition_score |-> m.repetition_score,
     avg_sentence_length |-> m.avg_sentence_length,
     function_word_ratio |-> m.function_word_ratio,
     composite_score |-> Round2(Composite(m)),
     detection_resistance |-> DetectionResistance(Composite(m))]

\* calculate_comprehensive_score(t, use_gpt2=False) under the measurements mo.
CalculateComprehensiveScore(mo, t) == ComprehensiveScore(mo[t])

---------------------------------------------------------------------------
(* OutputSelector                                                          *)

\* What an operation returns.
NoneResult == [kind |-> "None"]
DictResult(d) == [kind |-> "dict", value |-> d]
ListResult(l) == [kind |-> "list", value |-> l]
StrResult(t) == [kind |-> "str", value |-> t]

\* {**output, 'score': score, 'metrics': metrics}
Scored(output, score, m) ==
    [text |-> output.text, model |-> output.model, score |-> score, metrics |-> m]

\* The default weight table of weighted_voting, selector.py:31-39, and another.
DefaultWeights ==
    [perplexity |-> 25, burstiness |-> 25, bigram_entropy |-> 15,
     trigram_entropy |-> 10, pos_entropy |-> 10, semantic_coherence |-> 10,
     repetition_penalty |-> 5]

BurstinessWeights ==
    [perplexity |-> 10, burstiness |-> 50, bigram_entropy |-> 10,
     trigram_entropy |-> 10, pos_entropy |-> 5, semantic_coherence |-> 10,
     repetition_penalty |-> 5]

WeightTables == {DefaultWeights, BurstinessWeights}

WeightedScoreRawRepetition(m, w) ==
    m.perplexity * w.perplexity + m.burstiness * w.burstiness
        + m.bigram_entropy * w.bigram_entropy
        + m.trigram_entropy * w.trigram_entropy
        + m.pos_entropy * w.pos_entropy
        + m.semantic_coherence * w.semantic_coherence
        + m.repetition_score * w.repetition_penalty

\* The weighted score of selector.py:48-56.
WeightedScore(m, w) ==
    m.perplexity * w.perplexity + m.burstiness * w.burstiness
        + m.bigram_entropy * w.bigram_entropy
        + m.trigram_entropy * w.trigram_entropy
        + m.pos_entropy * w.pos_entropy
        + m.semantic_coherence * w.semantic_coherence
        + (10000 - m.repetition_score) * w.repetition_penalty

\* The scored_outputs list of weighted_voting, selector.py:41-62.
RECURSIVE WeightedScoredOutputs(_, _, _)
WeightedScoredOutputs(mo, outs, w) ==
    IF outs = <<>> THEN <<>>
    ELSE LET m == CalculateComprehensiveScore(mo, Head(outs).text)
         IN  <<Scored(Head(outs), WeightedScore(m, w), m)>>
                 \o WeightedScoredOutputs(mo, Tail(outs), w)

\* max(scored, key=lambda x: x['score']): the first element of maximal score.
RECURSIVE MaxByScoreFrom(_, _)
MaxByScoreFrom(best, rest) ==
    IF rest = <<>> THEN best
    ELSE IF Head(rest).score > best.score
         THEN MaxByScoreFrom(Head(rest), Tail(rest))
         ELSE MaxByScoreFrom(best, Tail(rest))

MaxByScore(scored) == MaxByScoreFrom(Head(scored), Tail(scored))

\* weighted_voting(outputs, weights), selector.py:13-65.
WeightedVotingResult(mo, outs, w) ==
    IF outs = <<>> THEN NoneResult
    ELSE DictResult(MaxByScore(WeightedScoredOutputs(mo, outs, w)))

\* The scored_outputs list of diversity_selection, selector.py:75-85.
RECURSIVE CompositeScoredOutputs(_, _)
CompositeScoredOutputs(mo, outs) ==
    IF outs = <<>> THEN <<>>
    ELSE LET m == CalculateComprehensiveScore(mo, Head(outs).text)
         IN  <<Scored(Head(outs), m.composite_score, m)>>
                 \o CompositeScoredOutputs(mo, Tail(outs))

\* x put into the list sorted by falling score, after the elements that
\* score as much: list.sort(key=score, reverse=True) is stable.
RECURSIVE InsertByScore(_, _)
InsertByScore(sorted, x) ==
    IF sorted = <<>> THEN <<x>>
    ELSE IF Head(sorted).score >= x.score
         THEN <<Head(sorted)>> \o InsertByScore(Tail(sorted), x)
         ELSE <<x>> \o sorted

Unsorted(scored) == scored

RECURSIVE SortByScoreDesc(_)
SortByScoreDesc(scored) ==
    IF scored = <<>> THEN <<>>
    ELSE InsertByScore(SortByScoreDesc(SubSeq(scored, 1, Len(scored) - 1)),
                       scored[Len(scored)])

\* scored_outputs[:top_k], for top_k >= 0.
Prefix(l, k) == SubSeq(l, 1, IF k < Len(l) THEN k ELSE Len(l))

\* diversity_selection(outputs, top_k), selector.py:68-89: the returned list.
DiversitySelectionList(mo, outs, top_k) ==
    IF outs = <<>> THEN <<>>
    ELSE Prefix(SortByScoreDesc(CompositeScoredOutputs(mo, outs)), top_k)

\* all_sentences of sentence_level_mixing, selector.py:103-107.
RECURSIVE AllSentences(_)
AllSentences(outs) ==
    IF outs = <<>> THEN <<>>
    ELSE <<SplitSentences(Head(outs).text)>> \o AllSentences(Tail(outs))

\* model_idx = i % len(all_sentences), with i counted from 0.
ModelIdxFirst(pos, n) == 0
ModelIdx(pos, n) == pos % n

\* The loop of selector.py:113-118 from position pos (counted from 0) on:
\* mixed_text after the loop, when it is acc before position pos.
RECURSIVE MixFrom(_, _, _, _)
MixFrom(all, pos, max_sentences, acc) ==
    IF pos >= max_sentences THEN acc
    ELSE LET sentences == all[ModelIdx(pos, Len(all)) + 1]
         IN  MixFrom(all, pos + 1, max_sentences,
                     IF pos < Len(sentences)
                     THEN Append(acc, sentences[pos + 1])
                     ELSE acc)

\* mixed_text of sentence_level_mixing for a non-empty outputs.
MixedSentences(outs) ==
    LET all == AllSentences(outs)
    IN  MixFrom(all, 0, MaxLen(all), <<>>)

\* `if metrics['composite_score'] > best_score`
BetterOrEqual(score, best_score) == score >= best_score
Better(score, best_score) == score > best_score

\* The scan of the 'best' strategy, selector.py:159-172: best after the
\* scan of rest, when it is best before.  best = None is NoneResult.
RECURSIVE BestFrom(_, _, _, _)
BestFrom(mo, rest, best, best_score) ==
    IF rest = <<>> THEN best
    ELSE LET m == CalculateComprehensiveScore(mo, Head(rest).text)
         IN  IF Better(m.composite_score, best_score)
             THEN BestFrom(mo, Tail(rest),
                           DictResult(Scored(Head(rest), m.composite_score, m)),
                           m.composite_score)
             ELSE BestFrom(mo, Tail(rest), best, best_score)

\* The strategy names ensemble_blend knows, and one it does not.
Strategies == {"weighted", "diverse", "mixed", "best", "random"}

\* Candidate lists hold at most MaxCands candidates.
MaxCands == 3

\* The values of top_k: 0..MaxCands + 1.
TopKs == 0..(MaxCands + 1)

\* Sentences and texts of the candidates.
Sp == <<" ">>
A1 == <<"A", "1", ".">>
A2 == <<"A", "2", ".">>
A3 == <<"A", "3", ".">>
B1 == <<"B", "1", ".">>
B2 == <<"B", "2", ".">>
\* "A1. A2. A3." and "B1. B2."
TextA == A1 \o Sp \o A2 \o Sp \o A3
TextB == B1 \o Sp \o B2
\* "c": one sentence without a terminator
TextC == <<"c">>
\* " d!  e?\nf g": leading whitespace, separators of two kinds, a last
\* sentence of two words without a terminator
TextD == <<" ", "d", "!", " ", " ", "e", "?", "\n", "f", " ", "g">>
\* "" and " ": texts without a sentence
TextEmpty == <<>>
TextBlank == <<" ">>

\* The candidates of the scoring strategies: three texts, one of them twice.
ScoreCandidates ==
    { [text |-> TextA, model |-> "bart"], [text |-> TextB, model |-> "t5"],
      [text |-> TextC, model |-> "pegasus"], [text |-> TextA, model |-> "t5"] }

\* The candidates of sentence mixing: texts of 0 to 3 sentences.
MixCandidates ==
    { [text |-> TextA, model |-> "bart"], [text |-> TextB, model |-> "t5"],
      [text |-> TextC, model |-> "pegasus"], [text |-> TextD, model |-> "bart"],
      [text |-> TextEmpty, model |-> "t5"], [text |-> TextBlank, model |-> "t5"] }

\* The lists of at most n elements of S.
ListsUpTo(S, n) == UNION {[1..k -> S] : k \in 0..n}

TextsOf(outs) == {outs[k].text : k \in 1..Len(outs)}

SelIdle ==
    /\ outputs = <<>>
    /\ metricsOf = <<>>
    /\ call = [op |-> "none"]
    /\ mixed_text = <<>>
    /\ result = [kind |-> "none"]

\* A caller holds a candidate list; the metric functions are deterministic,
\* so each text has one measurement.
SelInit ==
    /\ outputs \in ListsUpTo(ScoreCandidates, MaxCands)
    /\ metricsOf \in [TextsOf(outputs) -> Measurements]
    /\ call = [op |-> "none"]
    /\ mixed_text = <<>>
    /\ result = [kind |-> "none"]

\* The same with candidates of many sentence shapes, measured alike.
MixInit ==
    /\ outputs \in ListsUpTo(MixCandidates, MaxCands)
    /\ \E m \in Measurements : metricsOf = [t \in TextsOf(outputs) |-> m]
    /\ call = [op |-> "none"]
    /\ mixed_text = <<>>
    /\ result = [kind |-> "none"]

\* weighted_voting(outputs, weights), selector.py:13-65.
WeightedVoting(w) ==
    /\ call.op = "none"
    /\ call' = [op |-> "weighted_voting", weights |-> w]
    /\ result' = WeightedVotingResult(metricsOf, outputs, w)
    /\ UNCHANGED <<outputs, metricsOf, mixed_text>>
    /\ UNCHANGED notSelVars

\* diversity_selection(outputs, top_k), selector.py:68-89.
DiversitySelection(top_k) ==
    /\ call.op = "none"
    /\ call' = [op |-> "diversity_selection", top_k |-> top_k]
    /\ result' = ListResult(DiversitySelectionList(metricsOf, outputs, top_k))
    /\ UNCHANGED <<outputs, metricsOf, mixed_text>>
    /\ UNCHANGED notSelVars

\* sentence_level_mixing(outputs), selector.py:92-120.
SentenceLevelMixing ==
    /\ call.op = "none"
    /\ call' = [op |-> "sentence_level_mixing"]
    /\ IF outputs = <<>>
       THEN /\ mixed_text' = mixed_text
            /\ result' = StrResult(<<>>)
       ELSE /\ mixed_text' = MixedSentences(outputs)
            /\ result' = StrResult(JoinSpace(mixed_text'))
    /\ UNCHANGED <<outputs, metricsOf>>
    /\ UNCHANGED notSelVars

UnknownStrategyRaises(outs) == [kind |-> "raise", error |-> "ValueError"]

\* `else: return outputs[0]`, selector.py:174-176: a strategy name that is
\* none of the four returns the first candidate as it was given.
UnknownStrategy(outs) == DictResult(outs[1])

\* `if not outputs: return None`, selector.py:137-138: the guard comes before
\* the dispatch on the strategy.
EmptyBlendDispatched(strategy) ==
    IF strategy = "mixed" THEN StrResult(<<>>) ELSE NoneResult
EmptyBlend(strategy) == NoneResult

\* ensemble_blend(outputs, strategy), selector.py:123-176.  The 'mixed'
\* strategy scores the mixed text: a text the candidates do not hold gets
\* its measurement then.
EnsembleBlend(strategy) ==
    /\ call.op = "none"
    /\ call' = [op |-> "ensemble_blend", strategy |-> strategy]
    /\ IF outputs = <<>>
       THEN /\ result' = EmptyBlend(strategy)
            /\ UNCHANGED <<metricsOf, mixed_text>>
       ELSE CASE strategy = "weighted" ->
                 /\ result' = WeightedVotingResult(metricsOf, outputs, DefaultWeights)
                 /\ UNCHANGED <<metricsOf, mixed_text>>
              [] strategy = "diverse" ->
                 /\ LET diverse_outputs == DiversitySelectionList(metricsOf, outputs, 1)
                    IN  result' = DictResult(IF diverse_outputs # <<>>
                                             THEN diverse_outputs[1]
                                             ELSE outputs[1])
                 /\ UNCHANGED <<metricsOf, mixed_text>>
              [] strategy = "mixed" ->
                 /\ mixed_text' = MixedSentences(outputs)
                 /\ \E m \in Measurements :
                     LET mixed == JoinSpace(mixed_text')
                     IN  /\ mixed \in DOMAIN metricsOf => m = metricsOf[mixed]
                         /\ metricsOf' = (mixed :> m) @@ metricsOf
                         /\ LET ms == CalculateComprehensiveScore(metricsOf', mixed)
                            IN  result' = DictResult(
                                    [text |-> mixed, model |-> "ensemble_mixed",
                                     metrics |-> ms, score |-> ms.composite_score])
              [] strategy = "best" ->
                 /\ result' = BestFrom(metricsOf, outputs, NoneResult, -100)
                 /\ UNCHANGED <<metricsOf, mixed_text>>
              [] OTHER ->
                 /\ result' = UnknownStrategy(outputs)
                 /\ UNCHANGED <<metricsOf, mixed_text>>
    /\ UNCHANGED outputs
    /\ UNCHANGED notSelVars

NextSel ==
    \/ \E w \in WeightTables : WeightedVoting(w)
    \/ \E k \in TopKs : DiversitySelection(k)
    \/ SentenceLevelMixing
    \/ \E st \in Strategies : EnsembleBlend(st)

InitSelect ==
    /\ SelInit /\ LoopIdle /\ ScoreIdle /\ RecIdle /\ LazyIdle
    /\ AdIdle /\ CascadeIdle /\ HumanizeIdle
InitMix ==
    /\ MixInit /\ LoopIdle /\ ScoreIdle /\ RecIdle /\ LazyIdle
    /\ AdIdle /\ CascadeIdle /\ HumanizeIdle

\* The selector called on scored candidates, and on candidates to mix.
SpecSelect == InitSelect /\ [][NextSel]_vars
SpecMix == InitMix /\ [][NextSel]_vars

InitLoop ==
    /\ LoopInit /\ SelIdle /\ ScoreIdle /\ RecIdle /\ LazyIdle
    /\ AdIdle /\ CascadeIdle /\ HumanizeIdle

NextLoop ==
    \/ \E t \in Texts : HumanizeUntilPassing(t)
    \/ LoopScore
    \/ LoopTransform
    \/ LoopExhausted

SpecLoop == InitLoop /\ [][NextLoop]_vars

\* Every scoring call and every transformation call returns, and the
\* interpreter keeps running the call: each enabled step is eventually taken.
FairSpecLoop == SpecLoop /\ WF_vars(NextLoop)

---------------------------------------------------------------------------
(* AdvancedTextMetrics: the metric functions and calculate_comprehensive_  *)
(* score of advanced_metrics.py ("v1") and advanced_metrics_v2.py ("v2").  *)
(* A metric function is its guards, which are computed on the text, and    *)
(* past them a formula over word and character frequencies, whose value on *)
(* a text is raw[text].  Ratios are in hundredths, the type-token ratio in *)
(* ten-thousandths, the average sentence length in words.                  *)

\* re.split(r'[.!?]+', text) and the like: the pieces of t between maximal
\* runs of separators, the empty pieces at either end included.
RECURSIVE SplitRunsFrom(_, _, _, _)
SplitRunsFrom(t, seps, k, piece) ==
    IF k > Len(t) THEN <<piece>>
    ELSE IF t[k] \in seps
         THEN IF k > 1 /\ t[k - 1] \in seps
              THEN SplitRunsFrom(t, seps, k + 1, piece)
              ELSE <<piece>> \o SplitRunsFrom(t, seps, k + 1, <<>>)
         ELSE SplitRunsFrom(t, seps, k + 1, Append(piece, t[k]))

SplitRuns(t, seps) == SplitRunsFrom(t, seps, 1, <<>>)

\* text.split(): the maximal runs of non-whitespace characters.
SplitWords(t) == SelectSeq(SplitRuns(t, Whitespace), LAMBDA w : w # <<>>)

\* sentences = re.split(r'[.!?]+', text);
\* sentences = [s.strip() for s in sentences if s.strip()]
TerminatedSentences(t) == StripNonEmpty(SplitRuns(t, Terminators))

\* The sentences calculate_semantic_coherence keeps: len(s.split()) > 3.
QualifyingSentences(t) ==
    SelectSeq(TerminatedSentences(t), LAMBDA s : Len(SplitWords(s)) > 3)

\* What a call yields: a value, or an exception that leaves it.
Value(v) == [raised |-> FALSE, value |-> v]
Raised == [raised |-> TRUE]

\* calculate_entropy_based_perplexity(text), advanced_metrics.py:72-108.
CalculateEntropyBasedPerplexity(r, t) ==
    IF Len(SplitWords(t)) < 2 THEN 0 ELSE r.entropy_perplexity

BurstinessUnguarded(r, t) == r.burstiness

\* calculate_advanced_burstiness(text), advanced_metrics.py:111-141.
CalculateAdvancedBurstiness(r, t) ==
    IF Len(TerminatedSentences(t)) < 2 THEN 0 ELSE r.burstiness

\* calculate_ngram_entropy(text, n), advanced_metrics.py:144-174; a single
\* n-gram has entropy 0.
CalculateNgramEntropy(r, t, n) ==
    IF Len(SplitWords(t)) < n THEN 0
    ELSE IF Len(SplitWords(t)) = n THEN 0
    ELSE IF n = 2 THEN r.bigram_entropy ELSE r.trigram_entropy

\* calculate_stylometric_features(text), advanced_metrics.py:177-222 (v2:
\* 224-276, which adds type_token_ratio).
CalculateStylometricFeatures(r, t) ==
    IF SplitWords(t) = <<>> \/ TerminatedSentences(t) = <<>>
    THEN [avg_sentence_length |-> 0, function_word_ratio |-> 0,
          type_token_ratio |-> 0, punctuation_diversity |-> 0]
    ELSE [avg_sentence_length |-> r.avg_sentence_length,
          function_word_ratio |-> r.function_word_ratio,
          type_token_ratio |-> r.type_token_ratio,
          punctuation_diversity |-> r.punctuation_diversity]

\* `except Exception as e: ... return 50.0`, advanced_metrics.py:261-263.
TaggerException == Value(5000)

\* calculate_pos_tag_entropy(text), advanced_metrics.py:225-263 (v2: 279-321).
CalculatePosTagEntropy(available, cap, r, t) ==
    IF ~available THEN Value(5000)
    ELSE IF cap.tagger_throws THEN TaggerException
    ELSE IF SplitWords(t) = <<>> THEN Value(0)
    ELSE Value(r.pos_entropy)

\* detect_repetitive_patterns(text)['repetition_score'],
\* advanced_metrics.py:266-293.
DetectRepetitivePatterns(r, t) ==
    IF SplitWords(t) = <<>> THEN 0 ELSE r.repetition_score

\* calculate_semantic_coherence(text), advanced_metrics.py:296-329.
CalculateSemanticCoherence(r, t) ==
    IF Len(QualifyingSentences(t)) < 2 THEN 5000 ELSE r.semantic_coherence

GPT2ExceptionRaised(r, t) == Raised

\* `except Exception as e: ... return
\* AdvancedTextMetrics.calculate_entropy_based_perplexity(text)`,
\* advanced_metrics.py:67-69 and advanced_metrics_v2.py:93-95.
GPT2Exception(r, t) == Value(CalculateEntropyBasedPerplexity(r, t))

\* v1 calculate_true_perplexity_with_gpt2(text), advanced_metrics.py:37-69:
\* the model is loaded and evaluated inside one try block.
CalculateTruePerplexityWithGPT2(cap, r, t) ==
    IF cap.gpt2_loads /\ ~cap.gpt2_throws
    THEN Value(r.gpt2_perplexity)
    ELSE GPT2Exception(r, t)

\* v2 GPT2PerplexityCalculator.__init__, advanced_metrics_v2.py:45-64: a
\* calculator without a model tries to load one.
LoadGPT2(model, cap) ==
    IF model = "None"
    THEN IF cap.gpt2_loads THEN "gpt2" ELSE "None"
    ELSE model

\* v2 GPT2PerplexityCalculator.calculate_perplexity(text),
\* advanced_metrics_v2.py:66-95.
CalculatePerplexity(model, cap, r, t) ==
    IF model = "None" THEN Value(CalculateEntropyBasedPerplexity(r, t))
    ELSE IF cap.gpt2_throws THEN GPT2Exception(r, t)
    ELSE Value(r.gpt2_perplexity)

ModelReleasedAfterCall(model) == "None"

\* calculate_perplexity assigns no attribute of the calculator.
ModelAfterCall(model) == model

\* The perplexity of calculate_comprehensive_score, advanced_metrics.py:338-341
\* and advanced_metrics_v2.py:406-409.
Perplexity(var, model, cap, r, t, use_gpt2) ==
    IF ~use_gpt2 THEN Value(CalculateEntropyBasedPerplexity(r, t))
    ELSE IF var = "v1" THEN CalculateTruePerplexityWithGPT2(cap, r, t)
    ELSE CalculatePerplexity(model, cap, r, t)

\* The metric values of a text, given its perplexity and POS entropy.
Measured(p, pos, r, t) ==
    LET stylometric == CalculateStylometricFeatures(r, t)
    IN  [perplexity |-> p,
         burstiness |-> CalculateAdvancedBurstiness(r, t),
         bigram_entropy |-> CalculateNgramEntropy(r, t, 2),
         trigram_entropy |-> CalculateNgramEntropy(r, t, 3),
         pos_entropy |-> pos,
         semantic_coherence |-> CalculateSemanticCoherence(r, t),
         repetition_score |-> DetectRepetitivePatterns(r, t),
         avg_sentence_length |-> stylometric.avg_sentence_length,
         function_word_ratio |-> stylometric.function_word_ratio,
         type_token_ratio |-> stylometric.type_token_ratio,
         punctuation_diversity |-> stylometric.punctuation_diversity]

\* v2: the weighted sum of advanced_metrics_v2.py:422-431.
CompositeSumV2(m) ==
    m.perplexity * 22 + m.burstiness * 20 + m.bigram_entropy * 12
        + m.trigram_entropy * 10 + m.pos_entropy * 10
        + m.semantic_coherence * 10 + (10000 - m.repetition_score) * 8
        + m.type_token_ratio * 8

\* v2: the penalties and bonuses of advanced_metrics_v2.py:435-446.
AdjustmentsV2(m) ==
    (IF m.avg_sentence_length > 25 THEN -80000 ELSE 0)
        + (IF m.function_word_ratio < 30 THEN -60000 ELSE 0)
        + (IF m.type_token_ratio < 5000 THEN -50000 ELSE 0)
        + (IF m.avg_sentence_length < 20 /\ m.avg_sentence_length > 10
           THEN 50000 ELSE 0)
        + (IF m.punctuation_diversity > 40 THEN 30000 ELSE 0)

Unclamped(x) == x

\* v2: composite = max(0, min(100, composite)), advanced_metrics_v2.py:448.
ClampV2(x) == IF x < 0 THEN 0 ELSE IF x > 1000000 THEN 1000000 ELSE x

CompositeV2(m) == ClampV2(CompositeSumV2(m) + AdjustmentsV2(m))

DetectionResistanceV2Strict(c) ==
    IF c > 800000 THEN "VERY HIGH"
    ELSE IF c > 700000 THEN "HIGH"
    ELSE IF c > 600000 THEN "MEDIUM-HIGH"
    ELSE IF c > 500000 THEN "MEDIUM"
    ELSE "LOW"

\* v2: the resistance level of advanced_metrics_v2.py:450-460.
DetectionResistanceV2(c) ==
    IF c >= 800000 THEN "VERY HIGH"
    ELSE IF c >= 700000 THEN "HIGH"
    ELSE IF c >= 600000 THEN "MEDIUM-HIGH"
    ELSE IF c >= 500000 THEN "MEDIUM"
    ELSE "LOW"

\* v2: the dict calculate_comprehensive_score returns,
\* advanced_metrics_v2.py:462-475.
ComprehensiveScoreV2(m) ==
    [perplexity |-> m.perplexity, burstiness |-> m.burstiness,
     bigram_entropy |-> m.bigram_entropy, trigram_entropy |-> m.trigram_entropy,
     pos_entropy |-> m.pos_entropy, semantic_coherence |-> m.semantic_coherence,
     repetition_score |-> m.repetition_score,
     avg_sentence_length |-> m.avg_sentence_length,
     function_word_ratio |-> m.function_word_ratio,
     type_token_ratio |-> m.type_token_ratio,
     punctuation_diversity |-> m.punctuation_diversity,
     composite_score |-> Round2(CompositeV2(m)),
     detection_resistance |-> DetectionResistanceV2(CompositeV2(m))]

\* 'word_count': len(text.split()),
\* 'sentence_count': len(re.split(r'[.!?]+', text))
Counts(t) ==
    [word_count |-> Len(SplitWords(t)),
     sentence_count |-> Len(SplitRuns(t, Terminators))]

\* calculate_comprehensive_score(text, use_gpt2) of either module: what the
\* call yields, with the value of its local `composite`.
ScoreOutcome(var, model, available, cap, r, t, use_gpt2) ==
    LET p == Perplexity(var, model, cap, r, t, use_gpt2)
        pos == CalculatePosTagEntropy(available, cap, r, t)
    IN  IF p.raised \/ pos.raised THEN [kind |-> "raise"]
        ELSE LET m == Measured(p.value, pos.value, r, t)
             IN  IF var = "v1"
                 THEN [kind |-> "dict", composite |-> Composite(m),
                       value |-> Counts(t) @@ ComprehensiveScore(m)]
                 ELSE [kind |-> "dict", composite |-> CompositeV2(m),
                       value |-> Counts(t) @@ ComprehensiveScoreV2(m)]

\* The values the metric formulas yield on one text.
RawOf(ep, gp, b, bi, tri, pos, coh, rep, asl, fwr, ttr, pd) ==
    [entropy_perplexity |-> ep, gpt2_perplexity |-> gp, burstiness |-> b,
     bigram_entropy |-> bi, trigram_entropy |-> tri, pos_entropy |-> pos,
     semantic_coherence |-> coh, repetition_score |-> rep,
     avg_sentence_length |-> asl, function_word_ratio |-> fwr,
     type_token_ratio |-> ttr, punctuation_diversity |-> pd]

\* "a b", "a b c d.", "a b. c d.", "a b c d. e f g h." and
\* "a b c d! e f g h?": two words; one sentence; two sentences too short to
\* qualify for the coherence measure; two texts of two qualifying sentences.
TextTwoWords == <<"a", " ", "b">>
TextOneSentence == <<"a", " ", "b", " ", "c", " ", "d", ".">>
TextShortSentences == <<"a", " ", "b", ".", " ", "c", " ", "d", ".">>
TextNormal ==
    <<"a", " ", "b", " ", "c", " ", "d", ".", " ",
      "e", " ", "f", " ", "g", " ", "h", ".">>
TextNormalB ==
    <<"a", " ", "b", " ", "c", " ", "d", "!", " ",
      "e", " ", "f", " ", "g", " ", "h", "?">>

\* The texts scored: degenerate ones and a regular one.
ScoreTexts ==
    {TextEmpty, TextC, TextTwoWords, TextOneSentence, TextShortSentences,
     TextNormal}

\* Two ways the formulas may come out on a text.
RawProfiles ==
    { RawOf(6000, 9000, 7000, 8000, 8500, 6500, 4000, 2000, 15, 40, 7000, 50),
      RawOf(3000, 1000, 2000, 2500, 3500, 4500, 9000, 6000, 30, 20, 4000, 0) }

\* Every metric at an end of its range (the two perplexities at opposite
\* ends, the two n-gram entropies at the same end), with every combination
\* of the stylometric penalties and bonuses.
RawGrid ==
    { RawOf(ep, 10000 - ep, b, ng, ng, pos, coh, rep, asl, fwr, ttr, pd) :
        ep \in {0, 10000}, b \in {0, 10000}, ng \in {0, 10000},
        pos \in {0, 10000}, coh \in {0, 10000}, rep \in {0, 10000},
        asl \in {5, 15, 22, 30}, fwr \in {20, 40}, ttr \in {0, 4000, 10000},
        pd \in {0, 50} }

\* Metric values that put the composite at x, just below x and just above
\* x (less than half a hundredth away), with no penalty and no bonus at or
\* above 50.00.
Level(x) == RawOf(x, x, x, x, x, x, x, 10000 - x, 22, 40, x, 0)
Below(x) == RawOf(x - 2, x - 2, x, x, x, x, x, 10000 - x, 22, 40, x, 0)
Above(x) == RawOf(x + 1, x + 1, x, x, x, x, x, 10000 - x, 22, 40, x, 0)

RawLevels ==
    { Level(x) : x \in {0, 4999, 5000, 5001, 5999, 6000, 6999, 7000, 7499,
                        7500, 7501, 7999, 8000, 10000} }
        \cup { Below(x) : x \in {5000, 6000, 7000, 7500, 8000} }
        \cup { Above(x) : x \in {5000, 7500} }

\* The scorer before its first call, with the environment it runs in.
ScoreStart ==
    /\ variant \in {"v1", "v2"}
    /\ gpt2_calculator = FALSE
    /\ gpt2_model = "None"
    /\ earlier = [op |-> "none"]
    /\ latest = [op |-> "none", between |-> FALSE]

AllCapable == [gpt2_loads |-> TRUE, gpt2_throws |-> FALSE, tagger_throws |-> FALSE]

\* The ways the formulas may come out on the texts scored: one way on the
\* texts of odd length, one on the others.
RawAssignments ==
    { [t \in ScoreTexts |-> IF Len(t) % 2 = 1 THEN p ELSE q] :
        p \in RawProfiles, q \in RawProfiles }

\* Degenerate and regular texts, any environment.
ScoreInit ==
    /\ ScoreStart
    /\ nltk_available \in BOOLEAN
    /\ capability \in [gpt2_loads : BOOLEAN, gpt2_throws : BOOLEAN,
                       tagger_throws : BOOLEAN]
    /\ raw \in RawAssignments

\* One regular text with any metric values, every capability working.
GridInit ==
    /\ ScoreStart
    /\ nltk_available = TRUE
    /\ capability = AllCapable
    /\ raw \in [{TextNormal} -> RawGrid]

\* Two regular texts with composites at and around the label thresholds.
LabelInit ==
    /\ ScoreStart
    /\ nltk_available = TRUE
    /\ capability = AllCapable
    /\ raw \in [{TextNormal, TextNormalB} -> RawLevels]

\* v2: AdvancedTextMetrics(), advanced_metrics_v2.py:103-104, which
\* constructs the GPT2PerplexityCalculator singleton, lines 40-64.
Construct ==
    /\ variant = "v2"
    /\ gpt2_calculator' = TRUE
    /\ gpt2_model' = LoadGPT2(gpt2_model, capability)
    /\ UNCHANGED <<variant, nltk_available, capability, raw, earlier, latest>>
    /\ UNCHANGED notScoreVars

\* calculate_comprehensive_score(text, use_gpt2), advanced_metrics.py:332-391
\* and advanced_metrics_v2.py:401-475.
CalculateComprehensiveScoreCall(t, use_gpt2) ==
    /\ variant = "v2" => gpt2_calculator
    /\ LET this == [op |-> "score", text |-> t, use_gpt2 |-> use_gpt2,
                     outcome |-> ScoreOutcome(variant, gpt2_model, nltk_available,
                                              capability, raw[t], t, use_gpt2)]
       IN  IF earlier.op = "none"
           THEN /\ earlier' \in {earlier, this}
                /\ latest' = [between |-> FALSE] @@ this
           ELSE /\ earlier' = earlier
                /\ latest' = [between |-> \/ latest.between
                                          \/ t # earlier.text
                                          \/ use_gpt2 # earlier.use_gpt2] @@ this
    /\ gpt2_model' = IF variant = "v2" /\ use_gpt2
                     THEN ModelAfterCall(gpt2_model)
                     ELSE gpt2_model
    /\ UNCHANGED <<variant, nltk_available, capability, gpt2_calculator, raw>>
    /\ UNCHANGED notScoreVars

NextScore ==
    \/ Construct
    \/ \E t \in DOMAIN raw, use_gpt2 \in BOOLEAN :
        CalculateComprehensiveScoreCall(t, use_gpt2)

InitScore ==
    /\ ScoreInit /\ LoopIdle /\ SelIdle /\ RecIdle /\ LazyIdle
    /\ AdIdle /\ CascadeIdle /\ HumanizeIdle
InitGrid ==
    /\ GridInit /\ LoopIdle /\ SelIdle /\ RecIdle /\ LazyIdle
    /\ AdIdle /\ CascadeIdle /\ HumanizeIdle
InitLabel ==
    /\ LabelInit /\ LoopIdle /\ SelIdle /\ RecIdle /\ LazyIdle
    /\ AdIdle /\ CascadeIdle /\ HumanizeIdle

\* The scorer on degenerate and regular texts in any environment; on the
\* grid of metric values; on composites around the label thresholds.
SpecScore == InitScore /\ [][NextScore]_vars
SpecGrid == InitGrid /\ [][NextScore]_vars
SpecLabel == InitLabel /\ [][NextScore]_vars

---------------------------------------------------------------------------
(* RecursiveHumanizer.recursive_paraphrase, recursive_humanizer.py:23-90.  *)
(* Texts are the opaque values of Texts, text k having k words; scores are *)
(* those of Scores.                                                        *)

\* A humanizer is configured with at most MaxPasses passes.
MaxPasses == 2

\* What metrics_calculator may return: a dict with any composite_score, or
\* a dict without that key.
RpMetrics == {[composite_score |-> s] : s \in Scores} \cup {[perplexity |-> 1]}

\* What a paraphrase function may do on a text: return any text, or raise
\* an Exception.
ParaphraseOutcomes ==
    {[raised |-> FALSE, value |-> t] : t \in Texts} \cup {[raised |-> TRUE]}

\* What metrics_calculator may do on a text: return a dict, or raise.
MetricsOutcomes ==
    {[raised |-> FALSE, value |-> m] : m \in RpMetrics} \cup {[raised |-> TRUE]}

\* num_passes = random.randint(self.min_passes, self.max_passes)
RandInt(a, b) == a..b

\* metrics.get(key, 0)
GetOrZero(m, key) == IF key \in DOMAIN m THEN m[key] ELSE 0

\* len(paraphrased.split())
TextLength(t) == t

\* func_idx = pass_num % len(paraphrase_functions)
FuncIdxUncycled(idx, n) == idx
FuncIdx(idx, n) == idx % n

\* The text a pass goes on with, lines 57-61: the function's result, or the
\* current text when the function raised an Exception.
ParaphrasedEmptyOnError(p, cur) == IF p.raised THEN 0 ELSE p.value
Paraphrased(p, cur) == IF p.raised THEN cur ELSE p.value

\* `if score >= target_score: break`
TargetReached(score, target) == score >= target

\* RecursiveHumanizer(min_passes, max_passes), lines 14-21, with
\* min_passes <= max_passes, as random.randint requires.
RecInit ==
    /\ min_passes \in 0..MaxPasses
    /\ max_passes \in min_passes..MaxPasses
    /\ rp_pc = "idle"
    /\ rp_target = 0
    /\ n_functions = 0
    /\ num_passes = 0
    /\ pass_num = 0
    /\ rp_text = 0
    /\ pass_history = <<>>
    /\ n_paraphrase = 0
    /\ rp_raised = <<>>
    /\ rp_ret = Unbound

\* recursive_paraphrase(text, paraphrase_functions, metrics_calculator,
\* target_score): entry, lines 43-45, to the head of the for loop.
RecursiveParaphrase(t, n, target) ==
    /\ rp_pc = "idle"
    /\ rp_text' = t
    /\ n_functions' = n
    /\ rp_target' = target
    /\ pass_history' = <<>>
    /\ num_passes' \in RandInt(min_passes, max_passes)
    /\ pass_num' = 0
    /\ rp_pc' = IF 0 < num_passes' THEN "for" ELSE "final"
    /\ UNCHANGED <<min_passes, max_passes, n_paraphrase, rp_raised, rp_ret>>
    /\ UNCHANGED notRecVars

\* One pass of the loop, lines 49-85: a paraphrase function is applied, the
\* result scored and recorded, and the loop left on reaching the target or
\* on its last index.
RecursivePass(p, mo) ==
    /\ rp_pc = "for"
    /\ IF n_functions = 0
       THEN /\ rp_pc' = "raised"
            /\ rp_ret' = [raised |-> "ZeroDivisionError"]
            /\ UNCHANGED <<rp_text, pass_history, pass_num, n_paraphrase, rp_raised>>
       ELSE LET paraphrased == Paraphrased(p, rp_text)
            IN  /\ n_paraphrase' = n_paraphrase + 1
                /\ rp_raised' = Append(rp_raised, p.raised)
                /\ IF mo.raised
                   THEN /\ rp_pc' = "raised"
                        /\ rp_ret' = [raised |-> "metrics_calculator"]
                        /\ UNCHANGED <<rp_text, pass_history, pass_num>>
                   ELSE LET score == GetCompositeScore(mo.value)
                        IN  /\ pass_history' =
                                  Append(pass_history,
                                         [pass_number |-> pass_num + 1,
                                          function_used |-> FuncIdx(pass_num, n_functions),
                                          score |-> score,
                                          perplexity |-> GetOrZero(mo.value, "perplexity"),
                                          burstiness |-> GetOrZero(mo.value, "burstiness"),
                                          text_length |-> TextLength(paraphrased)])
                            /\ rp_text' = paraphrased
                            /\ IF TargetReached(score, rp_target)
                               THEN /\ rp_pc' = "final"
                                    /\ pass_num' = pass_num
                               ELSE /\ pass_num' = pass_num + 1
                                    /\ rp_pc' = IF pass_num + 1 < num_passes
                                                THEN "for" ELSE "final"
                            /\ UNCHANGED rp_ret
    /\ UNCHANGED <<min_passes, max_passes, rp_target, n_functions, num_passes>>
    /\ UNCHANGED notRecVars

\* After the loop, lines 87-90: the final scoring and the return.
RecursiveReturn(mo) ==
    /\ rp_pc = "final"
    /\ IF mo.raised
       THEN /\ rp_pc' = "raised"
            /\ rp_ret' = [raised |-> "metrics_calculator"]
       ELSE /\ rp_pc' = "returned"
            /\ rp_ret' = [current_text |-> rp_text, pass_history |-> pass_history,
                          total_passes |-> Len(pass_history)]
    /\ UNCHANGED <<min_passes, max_passes, rp_target, n_functions, num_passes,
                   pass_num, rp_text, pass_history, n_paraphrase, rp_raised>>
    /\ UNCHANGED notRecVars

NextRec ==
    \/ \E t \in Texts, n \in 0..2, target \in Scores : RecursiveParaphrase(t, n, target)
    \/ \E p \in ParaphraseOutcomes, mo \in MetricsOutcomes : RecursivePass(p, mo)
    \/ \E mo \in MetricsOutcomes : RecursiveReturn(mo)

InitRec ==
    /\ RecInit /\ LoopIdle /\ SelIdle /\ ScoreIdle /\ LazyIdle
    /\ AdIdle /\ CascadeIdle /\ HumanizeIdle

\* One call of recursive_paraphrase on a humanizer of any configuration.
SpecRec == InitRec /\ [][NextRec]_vars

---------------------------------------------------------------------------
(* The lazily created generation backend: get_ensemble of backend/app.py   *)
(* (lines 11-26) and get_advanced_ensemble of backend/app_hf.py (lines     *)
(* 14-29).  app.run serves each request in a thread of its own, so the     *)
(* handlers of two requests interleave statement by statement; the         *)
(* constructor loads models and takes long.                                *)

\* The number of request threads that may be active at once.
MaxRequests == 2

Threads == 1..MaxRequests

\* The class each application constructs.
EnsembleClass(module) ==
    IF module = "app" THEN "EnsembleHumanizer" ELSE "AdvancedEnsembleHumanizer"

\* The k-th instance constructed in the process.
Instance(module, k) == [class |-> EnsembleClass(module), id |-> k]

\* A thread that serves no request.
NoRequest == [at |-> "idle", constructed |-> NoEnsemble, ens |-> NoEnsemble]

\* `if ensemble is None`
IsNone(e) == e = NoEnsemble

\* The application after import: the global is None, lines 12 / 15.
LazyInit ==
    /\ app_module \in {"app", "app_hf"}
    /\ ensemble = NoEnsemble
    /\ n_constructed = 0
    /\ requests = [r \in Threads |-> NoRequest]
    /\ handed = {}

\* A request arrives whose handler calls get_ensemble() (app.py:79,
\* app_hf.py:105): the thread enters the function.
HandleRequest(r) ==
    /\ requests[r].at = "idle"
    /\ requests' = [requests EXCEPT ![r] = [NoRequest EXCEPT !.at = "test"]]
    /\ UNCHANGED <<app_module, ensemble, n_constructed, handed>>
    /\ UNCHANGED notLazyVars

\* `if ensemble is None:`, app.py:16 / app_hf.py:19.
GetEnsembleTest(r) ==
    /\ requests[r].at = "test"
    /\ requests' = [requests EXCEPT ![r].at =
                        IF IsNone(ensemble) THEN "construct" ELSE "return"]
    /\ UNCHANGED <<app_module, ensemble, n_constructed, handed>>
    /\ UNCHANGED notLazyVars

\* The constructor call on the right of the assignment, app.py:18-23 /
\* app_hf.py:21-26: a new instance is made.
GetEnsembleConstruct(r) ==
    /\ requests[r].at = "construct"
    /\ n_constructed' = n_constructed + 1
    /\ requests' = [requests EXCEPT
                        ![r].at = "assign",
                        ![r].constructed = Instance(app_module, n_constructed + 1)]
    /\ UNCHANGED <<app_module, ensemble, handed>>
    /\ UNCHANGED notLazyVars

\* The store into the global that ends the assignment.
GetEnsembleAssign(r) ==
    /\ requests[r].at = "assign"
    /\ ensemble' = requests[r].constructed
    /\ requests' = [requests EXCEPT ![r].at = "return"]
    /\ UNCHANGED <<app_module, n_constructed, handed>>
    /\ UNCHANGED notLazyVars

\* `return ensemble`, app.py:26 / app_hf.py:29: the global is read again.
GetEnsembleReturn(r) ==
    /\ requests[r].at = "return"
    /\ requests' = [requests EXCEPT ![r].at = "serving", ![r].ens = ensemble]
    /\ handed' = handed \cup {ensemble}
    /\ UNCHANGED <<app_module, ensemble, n_constructed>>
    /\ UNCHANGED notLazyVars

\* The handler finishes with the instance it was handed; the thread is free.
FinishRequest(r) ==
    /\ requests[r].at = "serving"
    /\ requests' = [requests EXCEPT ![r] = NoRequest]
    /\ UNCHANGED <<app_module, ensemble, n_constructed, handed>>
    /\ UNCHANGED notLazyVars

NextLazy ==
    \E r \in Threads :
        \/ HandleRequest(r)
        \/ GetEnsembleTest(r)
        \/ GetEnsembleConstruct(r)
        \/ GetEnsembleAssign(r)
        \/ GetEnsembleReturn(r)
        \/ FinishRequest(r)

InitLazy ==
    /\ LazyInit /\ LoopIdle /\ SelIdle /\ ScoreIdle /\ RecIdle
    /\ AdIdle /\ CascadeIdle /\ HumanizeIdle

\* Concurrent requests to one application process.
SpecLazy == InitLazy /\ [][NextLazy]_vars

---------------------------------------------------------------------------
(* RecursiveHumanizer.adaptive_recursive_humanization,                     *)
(* recursive_humanizer.py:185-255.  Texts and scores are as for            *)
(* recursive_paraphrase.                                                   *)

\* A call is given at most MaxAttempts attempts.
MaxAttempts == 2

\* statistical_randomization_pass(), lines 165-183: random sampling
\* parameters, here the two ends of each range (in hundredths).
StatisticalRandomizationPass ==
    { [temperature |-> 150, top_p |-> 95, top_k |-> 100, repetition_penalty |-> 120],
      [temperature |-> 200, top_p |-> 99, top_k |-> 200, repetition_penalty |-> 150] }

\* What paraphrase_func(current_text, **params) may do: return any text,
\* raise a TypeError, raise another exception.
ParamsParaphraseOutcomes ==
    {[kind |-> "value", value |-> t] : t \in Texts}
        \cup {[kind |-> "TypeError"], [kind |-> "raise"]}

\* What humanize_func may do on a text: return any text, or raise.
HumanizeOutcomes ==
    {[raised |-> FALSE, value |-> t] : t \in Texts} \cup {[raised |-> TRUE]}

\* Lines 222-226: the call with the parameters, and on a TypeError the call
\* without them, whose exceptions nothing catches.
ParaphraseWithParams(first, second) ==
    IF first.kind = "value" THEN [raised |-> FALSE, value |-> first.value]
    ELSE IF first.kind = "TypeError" THEN second
    ELSE [raised |-> TRUE]

\* metrics.get('detection_resistance', 'UNKNOWN')
GetResistance(m) ==
    IF "detection_resistance" \in DOMAIN m THEN m.detection_resistance ELSE "UNKNOWN"

\* `if score >= target_score`, line 249
AttemptSucceedsStrict(score, target) == score > target
AttemptSucceeds(score, target) == score >= target

\* adaptive_recursive_humanization(text, paraphrase_func, humanize_func,
\* metrics_calculator, target_score, max_attempts): entry, lines 207-208, to
\* the head of the for loop.
AdaptiveRecursiveHumanization(t, target, n) ==
    /\ ad_pc = "idle"
    /\ ad_text' = t
    /\ ad_target' = target
    /\ max_attempts' = n
    /\ attempt_history' = <<>>
    /\ attempt' = 0
    /\ ad_pc' = IF 0 < n THEN "for" ELSE "exhausted"
    /\ UNCHANGED <<ad_params, ad_paraphrased, ad_humanized, ad_ret>>
    /\ UNCHANGED notAdVars

\* An attempt begins, lines 212-226: the parameters are drawn and the text
\* is ad_paraphrased.
AdaptiveParaphrase(params, first, second) ==
    /\ ad_pc = "for"
    /\ ad_params' = params
    /\ LET outcome == ParaphraseWithParams(first, second)
       IN  IF outcome.raised
           THEN /\ ad_pc' = "raised"
                /\ ad_ret' = [raised |-> "paraphrase_func"]
                /\ UNCHANGED ad_paraphrased
           ELSE /\ ad_pc' = "humanize"
                /\ ad_paraphrased' = outcome.value
                /\ UNCHANGED ad_ret
    /\ UNCHANGED <<ad_target, max_attempts, ad_text, attempt, attempt_history,
                   ad_humanized>>
    /\ UNCHANGED notAdVars

\* `ad_humanized = humanize_func(ad_paraphrased)`, line 229.
AdaptiveHumanize(h) ==
    /\ ad_pc = "humanize"
    /\ IF h.raised
       THEN /\ ad_pc' = "raised"
            /\ ad_ret' = [raised |-> "humanize_func"]
            /\ UNCHANGED ad_humanized
       ELSE /\ ad_pc' = "score"
            /\ ad_humanized' = h.value
            /\ UNCHANGED ad_ret
    /\ UNCHANGED <<ad_target, max_attempts, ad_text, attempt, attempt_history,
                   ad_params, ad_paraphrased>>
    /\ UNCHANGED notAdVars

\* The attempt is scored and recorded, and the call returns if the score
\* reached the target, lines 232-251.
AdaptiveScore(mo) ==
    /\ ad_pc = "score"
    /\ IF mo.raised
       THEN /\ ad_pc' = "raised"
            /\ ad_ret' = [raised |-> "metrics_calculator"]
            /\ UNCHANGED <<ad_text, attempt, attempt_history>>
       ELSE LET score == GetCompositeScore(mo.value)
            IN  /\ attempt_history' =
                      Append(attempt_history,
                             [attempt |-> attempt + 1,
                              score |-> score,
                              perplexity |-> GetOrZero(mo.value, "perplexity"),
                              burstiness |-> GetOrZero(mo.value, "burstiness"),
                              params |-> ad_params,
                              detection_resistance |-> GetResistance(mo.value)])
                /\ ad_text' = ad_humanized
                /\ IF AttemptSucceeds(score, ad_target)
                   THEN /\ ad_pc' = "returned"
                        /\ ad_ret' = [current_text |-> ad_humanized,
                                      attempt_history |-> attempt_history',
                                      success |-> TRUE]
                        /\ attempt' = attempt
                   ELSE /\ attempt' = attempt + 1
                        /\ ad_pc' = IF attempt + 1 < max_attempts
                                    THEN "for" ELSE "exhausted"
                        /\ UNCHANGED ad_ret
    /\ UNCHANGED <<ad_target, max_attempts, ad_params, ad_paraphrased, ad_humanized>>
    /\ UNCHANGED notAdVars

\* The loop ran out, lines 253-254.
AdaptiveExhausted ==
    /\ ad_pc = "exhausted"
    /\ ad_pc' = "returned"
    /\ ad_ret' = [current_text |-> ad_text, attempt_history |-> attempt_history,
                  success |-> FALSE]
    /\ UNCHANGED <<ad_target, max_attempts, ad_text, attempt, attempt_history,
                   ad_params, ad_paraphrased, ad_humanized>>
    /\ UNCHANGED notAdVars

NextAd ==
    \/ \E t \in Texts, target \in 0..(MaxScore + 1), n \in 0..MaxAttempts :
        AdaptiveRecursiveHumanization(t, target, n)
    \/ \E params \in StatisticalRandomizationPass, first \in ParamsParaphraseOutcomes,
          second \in ParaphraseOutcomes :
        AdaptiveParaphrase(params, first, second)
    \/ \E h \in HumanizeOutcomes : AdaptiveHumanize(h)
    \/ \E mo \in MetricsOutcomes : AdaptiveScore(mo)
    \/ AdaptiveExhausted

InitAd ==
    /\ AdIdle /\ LoopIdle /\ SelIdle /\ ScoreIdle /\ RecIdle
    /\ LazyIdle /\ CascadeIdle /\ HumanizeIdle

\* One call of adaptive_recursive_humanization.
SpecAd == InitAd /\ [][NextAd]_vars

---------------------------------------------------------------------------
(* RecursiveHumanizer.multi_model_cascade and _blend_outputs,              *)
(* recursive_humanizer.py:92-163.  The model outputs are texts of the      *)
(* selector's kind, sequences of characters; what humanize_func returns is *)
(* an opaque text of Texts.                                                *)

\* The texts the models may have produced: three, two and two sentences,
\* and none.
CascadeTexts == {TextA, TextB, TextD, TextBlank}

\* scored_outputs, lines 115-122, when metrics_calculator gives output k the
\* score scores[k] (model_idx counts from 0).
ScoredModelOutputs(outs, scores) ==
    [k \in 1..Len(outs) |-> [text |-> outs[k], score |-> scores[k], model_idx |-> k - 1]]

\* scored_outputs[:min(3, len(scored_outputs))] after the sort, lines 125-128.
TopOutputs(scored) == Prefix(SortByScoreDesc(scored), 3)

\* all_sentences of _blend_outputs, lines 148-152.
RECURSIVE BlendSentences(_)
BlendSentences(texts) ==
    IF texts = <<>> THEN <<>>
    ELSE <<SplitSentences(Head(texts))>> \o BlendSentences(Tail(texts))

\* max(len(s) for s in all_sentences), line 156: max() of no values raises
\* ValueError.
MaxSentences(all) == IF all = <<>> THEN Raised ELSE Value(MaxLen(all))

\* The loops of lines 158-161 from position pos (counted from 0) and text k
\* (counted from 1) on: blended after them, when it is acc before.
RECURSIVE BlendFrom(_, _, _, _, _)
BlendFrom(all, pos, k, max_len, acc) ==
    IF pos >= max_len THEN acc
    ELSE IF k > Len(all) THEN BlendFrom(all, pos + 1, 1, max_len, acc)
    ELSE BlendFrom(all, pos, k + 1, max_len,
                   IF pos < Len(all[k]) THEN Append(acc, all[k][pos + 1]) ELSE acc)

\* _blend_outputs(texts), lines 143-163: the list blended when the call
\* gets as far as the loops, and the outcome.
BlendedList(texts) ==
    LET all == BlendSentences(texts)
        max_len == MaxSentences(all)
    IN  IF max_len.raised THEN <<>> ELSE BlendFrom(all, 0, 1, max_len.value, <<>>)

BlendOutputs(texts) ==
    IF MaxSentences(BlendSentences(texts)).raised
    THEN [kind |-> "raise", error |-> "ValueError"]
    ELSE StrResult(JoinSpace(BlendedList(texts)))

\* A caller holds the outputs of up to MaxCands models.
CascadeInit ==
    /\ model_outputs \in ListsUpTo(CascadeTexts, MaxCands)
    /\ cascade_pc = "idle"
    /\ top_outputs = <<>>
    /\ blend_texts = <<>>
    /\ blended = <<>>
    /\ cascade_ret = Unbound

\* multi_model_cascade(text, model_outputs, humanize_func,
\* metrics_calculator) up to the blending, lines 112-133.
MultiModelCascade(scores) ==
    /\ cascade_pc = "idle"
    /\ top_outputs' = TopOutputs(ScoredModelOutputs(model_outputs, scores))
    /\ blend_texts' = [k \in 1..Len(top_outputs') |-> top_outputs'[k].text]
    /\ blended' = BlendedList(blend_texts')
    /\ cascade_ret' = BlendOutputs(blend_texts')
    /\ cascade_pc' = IF cascade_ret'.kind = "raise" THEN "raised" ELSE "blended"
    /\ UNCHANGED model_outputs
    /\ UNCHANGED notCascadeVars

\* The humanization of the blend, the final scoring and the return, lines
\* 136-141.
CascadeHumanize(h, mo) ==
    /\ cascade_pc = "blended"
    /\ IF h.raised \/ mo.raised
       THEN /\ cascade_pc' = "raised"
            /\ cascade_ret' = [kind |-> "raise",
                               error |-> IF h.raised THEN "humanize_func"
                                         ELSE "metrics_calculator"]
       ELSE /\ cascade_pc' = "returned"
            /\ cascade_ret' = [kind |-> "tuple", humanized |-> h.value,
                               final_metrics |-> mo.value]
    /\ UNCHANGED <<model_outputs, top_outputs, blend_texts, blended>>
    /\ UNCHANGED notCascadeVars

NextCascade ==
    \/ \E scores \in [1..Len(model_outputs) -> Scores] : MultiModelCascade(scores)
    \/ \E h \in HumanizeOutcomes, mo \in MetricsOutcomes : CascadeHumanize(h, mo)

InitCascade ==
    /\ CascadeInit /\ LoopIdle /\ SelIdle /\ ScoreIdle /\ RecIdle /\ LazyIdle
    /\ AdIdle /\ HumanizeIdle

\* One call of multi_model_cascade on any outputs.
SpecCascade == InitCascade /\ [][NextCascade]_vars

---------------------------------------------------------------------------
(* AdvancedEnsembleHumanizer.humanize, backend/models/advanced_ensemble.py *)
(* lines 493-562: the generation of the candidates and their filter by     *)
(* length, up to the candidate list that goes on to scoring and selection. *)
(* A candidate text is known by its number of words.                       *)

\* Texts have at most MaxWords words.
MaxWords == 4

\* The models an ensemble may hold.
ModelNames == {"bart", "t5"}

\* A candidate: {'text': output, 'model': model_name}, lines 535-538.
Candidate(words, model) == [words |-> words, model |-> model]

Candidates == {Candidate(w, m) : w \in 0..MaxWords, m \in ModelNames}

\* len(output['text'].split())
WordCount(output) == output.words

\* min_length = int(input_word_count * 0.5)
MinLength(n) == n \div 2

\* The loop of lines 549-553: filtered_outputs after the scan of rest, when
\* it is acc before.
RECURSIVE FilterFrom(_, _, _)
FilterFrom(rest, min, acc) ==
    IF rest = <<>> THEN acc
    ELSE FilterFrom(Tail(rest), min,
                    IF WordCount(Head(rest)) >= min THEN Append(acc, Head(rest)) ELSE acc)

\* Lines 555-556: `if not filtered_outputs: filtered_outputs = all_outputs`
NoFallback(filtered, all) == filtered
Fallback(filtered, all) == IF filtered = <<>> THEN all ELSE filtered

\* humanize(text, ...): the analysis, the cleaning and the generation with
\* every model, lines 512-543.  _generate_with_adaptive_params returns any
\* number of outputs, none when the model fails.
Generate(words, outs) ==
    /\ hz_pc = "idle"
    /\ input_word_count' = words
    /\ all_outputs' = outs
    /\ hz_pc' = "generated"
    /\ UNCHANGED <<min_length, filtered_outputs, hz_ret>>
    /\ UNCHANGED notHumanizeVars

\* Lines 545-556: no output at all raises; otherwise the outputs are
\* filtered by length.
FilterOutputs ==
    /\ hz_pc = "generated"
    /\ IF all_outputs = <<>>
       THEN /\ hz_pc' = "raised"
            /\ hz_ret' = [raised |-> "No models available for generation"]
            /\ UNCHANGED <<min_length, filtered_outputs>>
       ELSE /\ hz_pc' = "filtered"
            /\ min_length' = MinLength(input_word_count)
            /\ filtered_outputs' =
                   Fallback(FilterFrom(all_outputs, min_length', <<>>), all_outputs)
            /\ UNCHANGED hz_ret
    /\ UNCHANGED <<input_word_count, all_outputs>>
    /\ UNCHANGED notHumanizeVars

NextHumanize ==
    \/ \E words \in 0..MaxWords, outs \in ListsUpTo(Candidates, MaxCands) :
        Generate(words, outs)
    \/ FilterOutputs

InitHumanize ==
    /\ HumanizeIdle /\ LoopIdle /\ SelIdle /\ ScoreIdle /\ RecIdle /\ LazyIdle
    /\ AdIdle /\ CascadeIdle

\* One call of humanize on any text with any generation results.
SpecHumanize == InitHumanize /\ [][NextHumanize]_vars

---------------------------------------------------------------------------
(* Properties of humanize_until_passing, checked under SpecLoop (C6 under  *)
(* FairSpecLoop).                                                          *)

Returned == pc \in {"converged", "exhausted"}

\* m is the result of scoring call k, made on text t held at position `at` of the trail.
IsScoringOf(m, t, k, at) ==
    /\ "call" \in DOMAIN m
    /\ m.scored_text = t
    /\ m.call = k
    /\ m.scored_at = at

\* C1: the transformation is applied at most max_iterations times, at every
\* moment of the call and so when it returns.
C1_AtMostMaxIterations ==
    max_iterations >= 0 => n_transform <= max_iterations

\* A call that returned after using its whole budget of two or more transformations.
C1_Witness ==
    /\ Returned
    /\ max_iterations >= 2
    /\ n_transform = max_iterations

\* C2 as stated: the returned iterations is the number of transformations
\* executed, on both return paths.
C2_IterationsCountTransforms ==
    Returned => ret.iterations = n_transform

\* C2 amended: the returned iterations is the number of loop passes started
\* (the scoring calls made inside the loop).  On the exhausted path that is
\* the number of transformations executed; on the converged path it is the
\* number of transformations executed plus one.
C2_IterationsCountPasses ==
    /\ pc = "converged" =>
        /\ ret.iterations = n_transform + 1
        /\ ret.iterations = n_score
    /\ pc = "exhausted" =>
        /\ ret.iterations = n_transform
        /\ ret.iterations = n_score - 1

\* A call that converged on its second scoring call, after one transformation.
C2_Witness ==
    /\ pc = "converged"
    /\ n_transform = 1
    /\ ret.iterations = 2

\* C3: when every scoring call returned a score below target_score, the call
\* returns after exactly max_iterations transformations and returns
\* iterations = max_iterations.
C3_ExhaustionUsesWholeBudget ==
    (Returned /\ all_below) =>
        /\ n_transform = max_iterations
        /\ ret.iterations = max_iterations

\* A call that returned with every score below target after two or more transformations.
C3_Witness ==
    /\ Returned
    /\ all_below
    /\ max_iterations >= 2
    /\ n_transform = max_iterations

\* C4: when the first scoring call returns a score >= target_score (and
\* max_iterations >= 1), that very step returns: one scoring call, no
\* transformation, the input text unchanged, and the metrics of that call.
C4_FirstScorePassesReturnsInput ==
    [][(/\ n_score = 0
        /\ n_score' = 1
        /\ max_iterations >= 1
        /\ GetCompositeScore(metrics') >= target_score)
       => (/\ pc' = "converged"
           /\ n_transform' = 0
           /\ ret'.text = text
           /\ ret'.metrics = metrics'
           /\ IsScoringOf(ret'.metrics, text, 1, 1))]_vars

\* A call that returned on its first scoring call with a positive target.
C4_Witness ==
    /\ pc = "converged"
    /\ n_score = 1
    /\ n_transform = 0
    /\ target_score >= 1
    /\ ret.text = text

\* C5: on every return path the returned metrics are the result of the last
\* scoring call, and that call scored the returned text: the text held after
\* the last transformation.
C5_MetricsAreOfReturnedText ==
    Returned =>
        /\ ret.text = current_text
        /\ ret.text = trail[Len(trail)]
        /\ Len(trail) = n_transform + 1
        /\ IsScoringOf(ret.metrics, ret.text, n_score, Len(trail))

\* An exhausted call whose last transformation changed the text.
C5_Witness ==
    /\ pc = "exhausted"
    /\ n_transform >= 1
    /\ trail[Len(trail)] # trail[Len(trail) - 1]
    /\ ret.metrics.scored_text = trail[Len(trail)]

\* C6: a started call eventually returns, either converged on a score
\* >= target_score or exhausted with the whole budget of transformations used.
C6_EventuallyReturns ==
    (pc = "for") ~>
        \/ /\ pc = "converged"
           /\ GetCompositeScore(ret.metrics) >= target_score
        \/ /\ pc = "exhausted"
           /\ n_transform = max_iterations

\* A call that ran out of budget after two or more failed passes.
C6_Witness ==
    /\ pc = "exhausted"
    /\ n_transform >= 2
    /\ n_transform = max_iterations
    /\ GetCompositeScore(metrics) < target_score

---------------------------------------------------------------------------
(* Properties of OutputSelector, checked under SpecSelect (C7, C10) and    *)
(* SpecMix (C8, C9).                                                       *)

\* The composite score of a candidate.
CompositeOf(c) == CalculateComprehensiveScore(metricsOf, c.text).composite_score

BestCalled == call.op = "ensemble_blend" /\ call.strategy = "best"

\* C7: the 'best' strategy on a non-empty list returns a candidate whose
\* composite score is >= that of every candidate, and the first such
\* candidate of the list.
C7_BestReturnsFirstMaximum ==
    (BestCalled /\ outputs # <<>>) =>
        /\ result.kind = "dict"
        /\ \A k \in 1..Len(outputs) : result.value.score >= CompositeOf(outputs[k])
        /\ \E k \in 1..Len(outputs) :
            /\ result.value.text = outputs[k].text
            /\ result.value.model = outputs[k].model
            /\ result.value.score = CompositeOf(outputs[k])
            /\ result.value.metrics = CalculateComprehensiveScore(metricsOf, outputs[k].text)
            /\ \A j \in 1..(k - 1) : CompositeOf(outputs[j]) < CompositeOf(outputs[k])

\* 'best' returned the second candidate of three; the third, another
\* candidate, scores as much, and the first scores less.
C7_Witness ==
    /\ BestCalled
    /\ Len(outputs) = 3
    /\ CompositeOf(outputs[1]) < CompositeOf(outputs[2])
    /\ CompositeOf(outputs[3]) = CompositeOf(outputs[2])
    /\ outputs[3] # outputs[2]
    /\ result.kind = "dict"
    /\ result.value.model = outputs[2].model
    /\ result.value.text = outputs[2].text

\* The 'mixed' strategy ran its loop: sentence_level_mixing was called on a
\* non-empty list, directly or by ensemble_blend.
MixCalled ==
    /\ outputs # <<>>
    /\ \/ call.op = "sentence_level_mixing"
       \/ call.op = "ensemble_blend" /\ call.strategy = "mixed"

\* The text of the result of the 'mixed' strategy.
MixedResultText ==
    IF call.op = "sentence_level_mixing" THEN result.value ELSE result.value.text

OutputTexts == [k \in 1..Len(outputs) |-> outputs[k].text]

Occurs(x, seq) == \E q \in 1..Len(seq) : seq[q] = x

\* C8 as stated: "A1. A2. A3." and "B1. B2." mix to A1, B1, A2, B2, A3, and
\* for two candidates every sentence of either is in the mixed output.
C8_MixKeepsEverySentence ==
    /\ (MixCalled /\ OutputTexts = <<TextA, TextB>>) =>
        mixed_text = <<A1, B1, A2, B2, A3>>
    /\ (MixCalled /\ Len(outputs) = 2) =>
        \A c \in 1..2 :
            \A p \in 1..Len(SplitSentences(outputs[c].text)) :
                Occurs(SplitSentences(outputs[c].text)[p], mixed_text)

\* C8 amended: "A1. A2. A3." and "B1. B2." mix to A1, B2, A3.  For two
\* candidates the output holds the first candidate's 1st, 3rd, ... sentences
\* and the second candidate's 2nd, 4th, ... sentences and nothing else: the
\* other sentences are dropped, and so is a trailing sentence of the longer
\* candidate at a position that belongs to the other candidate.
C8_MixTakesAlternatePositions ==
    /\ (MixCalled /\ OutputTexts = <<TextA, TextB>>) =>
        /\ mixed_text = <<A1, B2, A3>>
        /\ MixedResultText = A1 \o Sp \o B2 \o Sp \o A3
    /\ (MixCalled /\ Len(outputs) = 2) =>
        LET s1 == SplitSentences(outputs[1].text)
            s2 == SplitSentences(outputs[2].text)
            kept1 == {p \in 1..Len(s1) : p % 2 = 1}
            kept2 == {p \in 1..Len(s2) : p % 2 = 0}
        IN  /\ Len(mixed_text) = Cardinality(kept1) + Cardinality(kept2)
            /\ \A q \in 1..Len(mixed_text) :
                \/ \E p \in kept1 : mixed_text[q] = s1[p]
                \/ \E p \in kept2 : mixed_text[q] = s2[p]
            /\ \A p \in kept1 : Occurs(s1[p], mixed_text)
            /\ \A p \in kept2 : Occurs(s2[p], mixed_text)

\* The two candidates of the example were mixed, and B1 and A2 are not in the output.
C8_Witness ==
    /\ MixCalled
    /\ OutputTexts = <<TextA, TextB>>
    /\ Len(mixed_text) = 3
    /\ ~Occurs(B1, mixed_text)
    /\ ~Occurs(A2, mixed_text)

C10_EmptyMixedIsEmptyString ==
    (outputs = <<>> /\ call.op # "none") =>
        /\ result \in {[kind |-> "None"], [kind |-> "list", value |-> <<>>],
                       [kind |-> "str", value |-> <<>>]}
        /\ (\/ call.op = "sentence_level_mixing"
            \/ call.op = "ensemble_blend" /\ call.strategy = "mixed")
           => result = [kind |-> "str", value |-> <<>>]

\* C10 amended: on an empty list every operation returns an empty result:
\* ensemble_blend returns None for every strategy name, 'mixed' included,
\* weighted_voting returns None, diversity_selection returns the empty list,
\* and sentence_level_mixing, called directly, returns the empty string.
C10_EmptyResults ==
    (outputs = <<>> /\ call.op # "none") =>
        /\ call.op = "ensemble_blend" => result = [kind |-> "None"]
        /\ call.op = "weighted_voting" => result = [kind |-> "None"]
        /\ call.op = "diversity_selection" => result = [kind |-> "list", value |-> <<>>]
        /\ call.op = "sentence_level_mixing" => result = [kind |-> "str", value |-> <<>>]

\* ensemble_blend was called with 'mixed' on the empty list and returned None.
C10_Witness ==
    /\ outputs = <<>>
    /\ call.op = "ensemble_blend"
    /\ call.strategy = "mixed"
    /\ result.kind = "None"

---------------------------------------------------------------------------
(* Claims C11-C13: the selector's default branch, diversity_selection and  *)
(* weighted_voting.                                                        *)

KnownStrategies == {"weighted", "diverse", "mixed", "best"}

UnknownCalled ==
    /\ call.op = "ensemble_blend"
    /\ call.strategy \notin KnownStrategies
    /\ outputs # <<>>

\* C11 as stated: ensemble_blend on a non-empty candidate list with a
\* strategy name outside the four known ones raises an error to the caller
\* and returns no candidate.
C11_UnknownStrategyRaises == UnknownCalled => result.kind = "raise"

\* C11 amended: ensemble_blend on a non-empty candidate list with a strategy
\* name outside the four known ones raises nothing: it returns the first
\* candidate of the list exactly as given, with no score and no metrics.
C11_UnknownStrategyReturnsFirst ==
    UnknownCalled =>
        /\ result.kind = "dict"
        /\ result.value = outputs[1]
        /\ DOMAIN result.value = {"text", "model"}

\* An unknown strategy returned the first candidate although the second
\* has the higher composite score.
C11_Witness ==
    /\ UnknownCalled
    /\ Len(outputs) >= 2
    /\ CompositeOf(outputs[1]) < CompositeOf(outputs[2])
    /\ result = [kind |-> "dict", value |-> outputs[1]]

DiverseCalled == call.op = "diversity_selection"

Min(a, b) == IF a < b THEN a ELSE b

\* returned[i] is the candidate outputs[f[i]] with its composite score.
IsSelectionBy(f, returned) ==
    /\ \A a, b \in DOMAIN f : a # b => f[a] # f[b]
    /\ \A a \in DOMAIN f :
        /\ returned[a].text = outputs[f[a]].text
        /\ returned[a].model = outputs[f[a]].model
        /\ returned[a].score = CompositeOf(outputs[f[a]])

\* C12: diversity_selection(outputs, top_k) on N candidates returns exactly
\* min(top_k, N) of them, in non-increasing order of composite score, and
\* every returned candidate scores at least as high as every candidate left
\* out; the 'diverse' strategy (top_k = 1) returns a candidate whose
\* composite score no other candidate exceeds.
C12_TopKByCompositeScore ==
    /\ DiverseCalled =>
        LET returned == result.value
            n == Len(returned)
        IN  /\ result.kind = "list"
            /\ n = Min(call.top_k, Len(outputs))
            /\ \A a, b \in 1..n : a < b => returned[a].score >= returned[b].score
            /\ \E f \in [1..n -> 1..Len(outputs)] :
                /\ IsSelectionBy(f, returned)
                /\ \A j \in 1..Len(outputs) :
                    (\A a \in 1..n : f[a] # j) =>
                        \A a \in 1..n : returned[a].score >= CompositeOf(outputs[j])
    /\ (call.op = "ensemble_blend" /\ call.strategy = "diverse" /\ outputs # <<>>) =>
        /\ result.kind = "dict"
        /\ \E j \in 1..Len(outputs) :
            /\ result.value.text = outputs[j].text
            /\ result.value.score = CompositeOf(outputs[j])
        /\ \A j \in 1..Len(outputs) : result.value.score >= CompositeOf(outputs[j])

\* Two of three candidates were asked for, the candidates came in strictly
\* increasing score order, and the last one was returned first.
C12_Witness ==
    /\ DiverseCalled
    /\ call.top_k = 2
    /\ Len(outputs) = 3
    /\ CompositeOf(outputs[1]) < CompositeOf(outputs[2])
    /\ CompositeOf(outputs[2]) < CompositeOf(outputs[3])
    /\ Len(result.value) = 2
    /\ result.value[1].text = outputs[3].text
    /\ result.value[2].text = outputs[2].text

WeightedCalled == call.op = "weighted_voting" /\ outputs # <<>>

\* The weighted score of candidate c under the table w: the six metric
\* values and 100 less the repetition score, each times its weight.
ExpectedWeighted(c, w) ==
    LET m == metricsOf[c.text]
    IN  m.perplexity * w.perplexity + m.burstiness * w.burstiness
            + m.bigram_entropy * w.bigram_entropy
            + m.trigram_entropy * w.trigram_entropy
            + m.pos_entropy * w.pos_entropy
            + m.semantic_coherence * w.semantic_coherence
            + (10000 - m.repetition_score) * w.repetition_penalty

\* C13: weighted_voting scores every candidate with the supplied weight
\* table, the repetition score entering as 100 less its value, and returns
\* a candidate whose weighted score no other candidate exceeds; the metric
\* values it reports for the candidate are the scorer's, whatever the
\* weight table is.
C13_WeightedVotingMaximum ==
    WeightedCalled =>
        /\ result.kind = "dict"
        /\ \E j \in 1..Len(outputs) :
            /\ result.value.text = outputs[j].text
            /\ result.value.model = outputs[j].model
            /\ result.value.score = ExpectedWeighted(outputs[j], call.weights)
        /\ \A j \in 1..Len(outputs) :
            result.value.score >= ExpectedWeighted(outputs[j], call.weights)
        /\ result.value.metrics = ComprehensiveScore(metricsOf[result.value.text])
        /\ \A w \in WeightTables :
            WeightedVotingResult(metricsOf, outputs, w).value.metrics
                = ComprehensiveScore(
                      metricsOf[WeightedVotingResult(metricsOf, outputs, w).value.text])

\* Under the burstiness-heavy table the second candidate was returned,
\* where the default table prefers the first: the winner changed with the
\* table, the reported metric values did not.
C13_Witness ==
    /\ WeightedCalled
    /\ call.weights = BurstinessWeights
    /\ Len(outputs) = 2
    /\ outputs[1].text # outputs[2].text
    /\ result.value.text = outputs[2].text
    /\ ExpectedWeighted(outputs[1], DefaultWeights)
           > ExpectedWeighted(outputs[2], DefaultWeights)
    /\ ExpectedWeighted(outputs[1], BurstinessWeights)
           < ExpectedWeighted(outputs[2], BurstinessWeights)
    /\ result.value.metrics.repetition_score = metricsOf[outputs[2].text].repetition_score

---------------------------------------------------------------------------
(* Claims C14-C19: calculate_comprehensive_score of both modules.          *)

\* Both calls kept in the state returned a dict.
TwoScored ==
    /\ earlier.op = "score"
    /\ latest.op = "score"
    /\ earlier.outcome.kind = "dict"
    /\ latest.outcome.kind = "dict"

\* The last call returned a dict.
ScoredLast == latest.op = "score" /\ latest.outcome.kind = "dict"

\* The tiers of the resistance labels, lowest first.
TierOf(label) ==
    CASE label = "LOW" -> 0
      [] label = "MEDIUM" -> 1
      [] label = "MEDIUM-HIGH" -> 2
      [] label = "HIGH" -> 3
      [] label = "VERY HIGH" -> 4

\* C14: of two composite scores a <= b in [0,100], the label given to a is
\* never of a higher tier than the label given to b, in either module.
C14_LabelMonotone ==
    TwoScored =>
        LET a == earlier.outcome
            b == latest.outcome
        IN  /\ a.composite <= b.composite =>
                TierOf(a.value.detection_resistance)
                    <= TierOf(b.value.detection_resistance)
            /\ b.composite <= a.composite =>
                TierOf(b.value.detection_resistance)
                    <= TierOf(a.value.detection_resistance)

\* The v2 scorer labelled a composite of 60.00 MEDIUM-HIGH and, later, a
\* composite of 80.00 VERY HIGH.
C14_Witness ==
    /\ TwoScored
    /\ variant = "v2"
    /\ earlier.outcome.composite = 600000
    /\ latest.outcome.composite = 800000
    /\ earlier.outcome.value.detection_resistance = "MEDIUM-HIGH"
    /\ latest.outcome.value.detection_resistance = "VERY HIGH"

\* The five-tier table: >= 80 VERY HIGH, >= 70 HIGH, >= 60 MEDIUM-HIGH,
\* >= 50 MEDIUM, lower LOW.
FiveTierLabel(c) ==
    IF c >= 800000 THEN "VERY HIGH"
    ELSE IF c >= 700000 THEN "HIGH"
    ELSE IF c >= 600000 THEN "MEDIUM-HIGH"
    ELSE IF c >= 500000 THEN "MEDIUM"
    ELSE "LOW"

\* The three-tier table: above 75 HIGH, above 50 MEDIUM, otherwise LOW.
ThreeTierLabel(c) ==
    IF c > 750000 THEN "HIGH" ELSE IF c > 500000 THEN "MEDIUM" ELSE "LOW"

\* C15 as stated: calculate_comprehensive_score, of either module, labels
\* the clamped composite by the five-tier table.
C15_FiveTierTable ==
    ScoredLast =>
        latest.outcome.value.detection_resistance
            = FiveTierLabel(latest.outcome.composite)

\* C15 amended: calculate_comprehensive_score of advanced_metrics_v2 labels
\* the clamped composite by the five-tier table; that of advanced_metrics
\* labels it by the three-tier table.
C15_TableOfEachModule ==
    ScoredLast =>
        /\ variant = "v2" =>
            latest.outcome.value.detection_resistance
                = FiveTierLabel(latest.outcome.composite)
        /\ variant = "v1" =>
            latest.outcome.value.detection_resistance
                = ThreeTierLabel(latest.outcome.composite)

\* The v1 scorer labelled a composite of 80.00 HIGH after the v1 scorer
\* labelled a composite of 50.00 LOW.
C15_Witness ==
    /\ TwoScored
    /\ variant = "v1"
    /\ earlier.outcome.composite = 500000
    /\ earlier.outcome.value.detection_resistance = "LOW"
    /\ latest.outcome.composite = 800000
    /\ latest.outcome.value.detection_resistance = "HIGH"

\* C16: whatever the metric values in [0,100], the repetition score in
\* [0,100] and the stylometric penalties and bonuses that apply, the
\* composite_score calculate_comprehensive_score returns lies in [0,100],
\* in either module.
C16_CompositeInRange ==
    ScoredLast =>
        /\ latest.outcome.value.composite_score >= 0
        /\ latest.outcome.value.composite_score <= 10000

\* The v2 scorer returned 100.00 for a text with every metric at 100, no
\* repetition and both bonuses, whose weighted sum with bonuses is 108.00.
C16_Witness ==
    /\ ScoredLast
    /\ variant = "v2"
    /\ latest.text = TextNormal
    /\ ~latest.use_gpt2
    /\ raw[TextNormal] = RawOf(10000, 0, 10000, 10000, 10000, 10000, 10000, 0,
                               15, 40, 10000, 50)
    /\ latest.outcome.value.composite_score = 10000

\* The texts scored that have fewer than two words, fewer than three
\* words, fewer than two sentences, fewer than two sentences of more than
\* three words.
FewerThanTwoWords == {TextEmpty, TextC}
FewerThanThreeWords == {TextEmpty, TextC, TextTwoWords}
FewerThanTwoSentences == {TextEmpty, TextC, TextTwoWords, TextOneSentence}
FewerThanTwoQualifying ==
    {TextEmpty, TextC, TextTwoWords, TextOneSentence, TextShortSentences}

\* C17: scoring a degenerate text never raises, and each affected metric
\* has its sentinel: burstiness 0.0 with fewer than 2 sentences, semantic
\* coherence 50.0 with fewer than 2 qualifying sentences, n-gram entropy of
\* order n 0.0 with fewer than n words, the entropy perplexity 0.0 with
\* fewer than 2 words.
C17_DegenerateTextSentinels ==
    latest.op = "score" =>
        /\ latest.outcome.kind = "dict"
        /\ LET t == latest.text
               m == latest.outcome.value
           IN  /\ t \in FewerThanTwoSentences => m.burstiness = 0
               /\ t \in FewerThanTwoQualifying => m.semantic_coherence = 5000
               /\ t \in FewerThanTwoWords => m.bigram_entropy = 0
               /\ t \in FewerThanThreeWords => m.trigram_entropy = 0
               /\ (t \in FewerThanTwoWords /\ ~latest.use_gpt2) => m.perplexity = 0

\* "a b c d." was scored without GPT-2: burstiness is 0.0 and coherence
\* 50.0, while the entropy measures of its four words are the formulas'.
C17_Witness ==
    /\ ScoredLast
    /\ latest.text = TextOneSentence
    /\ ~latest.use_gpt2
    /\ latest.outcome.value.burstiness = 0
    /\ latest.outcome.value.semantic_coherence = 5000
    /\ latest.outcome.value.trigram_entropy = raw[TextOneSentence].trigram_entropy
    /\ latest.outcome.value.perplexity = raw[TextOneSentence].entropy_perplexity
    /\ raw[TextOneSentence].burstiness > 0

\* The perplexity oracle is not there or throws; the tagger likewise.
OracleFails == ~capability.gpt2_loads \/ capability.gpt2_throws
TaggerFails == ~nltk_available \/ capability.tagger_throws

\* The entropy-based proxy of a text scored.
ProxyOf(t) == IF t \in FewerThanTwoWords THEN 0 ELSE raw[t].entropy_perplexity

\* C18: a capability that is absent or throws never makes
\* calculate_comprehensive_score raise: with a failing or unloaded
\* perplexity oracle the perplexity is the entropy-based proxy of the same
\* text, with an unavailable or failing tagger pos_entropy is 50.0.
C18_CapabilityFailureDegrades ==
    latest.op = "score" =>
        /\ latest.outcome.kind = "dict"
        /\ (latest.use_gpt2 /\ OracleFails) =>
            latest.outcome.value.perplexity = ProxyOf(latest.text)
        /\ TaggerFails => latest.outcome.value.pos_entropy = 5000

\* The v2 scorer, its model loaded, scored the regular text with GPT-2
\* while the evaluation and the tagger throw: it returned the proxy, which
\* is not the oracle's value, and 50.0.
C18_Witness ==
    /\ ScoredLast
    /\ variant = "v2"
    /\ gpt2_model = "gpt2"
    /\ capability.gpt2_throws
    /\ nltk_available
    /\ capability.tagger_throws
    /\ latest.use_gpt2
    /\ latest.text = TextNormal
    /\ latest.outcome.value.perplexity = raw[TextNormal].entropy_perplexity
    /\ latest.outcome.value.perplexity # raw[TextNormal].gpt2_perplexity
    /\ latest.outcome.value.pos_entropy = 5000
    /\ raw[TextNormal].pos_entropy # 5000

---------------------------------------------------------------------------
(* Claim C20: the passes of recursive_paraphrase.                          *)

RpReturned == rp_pc = "returned"

\* C20: every call of recursive_paraphrase executes at least min_passes and
\* at most max_passes paraphrase passes, whatever the metrics calculator
\* returns and whatever target_score is.
C20_PassesBetweenMinAndMax ==
    RpReturned => (min_passes <= n_paraphrase /\ n_paraphrase <= max_passes)

---------------------------------------------------------------------------
(* Further properties of humanize_until_passing, checked under SpecLoop.   *)

\* C21: the transformation is only ever applied to the text the last scoring
\* call scored, and that call returned a score strictly below target_score;
\* so a call that returns with fewer than max_iterations transformations
\* returns a text whose scoring returned a score >= target_score.
C21_TransformOnlyBelowTarget ==
    [][/\ (n_transform' = n_transform + 1) =>
            /\ IsScoringOf(metrics, current_text, n_score, Len(trail))
            /\ GetCompositeScore(metrics) < target_score
       /\ (Returned' /\ ~Returned /\ n_transform' < max_iterations) =>
            /\ pc' = "converged"
            /\ IsScoringOf(ret'.metrics, ret'.text, n_score', Len(trail'))
            /\ GetCompositeScore(ret'.metrics) >= target_score]_vars

\* A call that converged after one transformation with budget left: its
\* first text scored below the target and was transformed, its second passed.
C21_Witness ==
    /\ pc = "converged"
    /\ max_iterations = 3
    /\ n_transform = 1
    /\ target_score >= 1
    /\ GetCompositeScore(ret.metrics) >= target_score

\* C22: the returned text is the last text of the chain input, T(input),
\* T(T(input)), ..., one link per transformation executed, whatever the
\* scores of the earlier links were; no earlier, better-scored text is kept.
C22_ReturnsLastOfChain ==
    Returned =>
        /\ Len(trail) = n_transform + 1
        /\ trail[1] = text
        /\ \A k \in 1..n_transform : trail[k + 1] \in ComprehensiveHumanization(trail[k])
        /\ ret.text = trail[n_transform + 1]

\* An exhausted call whose last pass scored strictly higher than the final
\* scoring of the returned text, the two texts being different.
C22_Witness ==
    /\ pc = "exhausted"
    /\ n_transform >= 1
    /\ metrics.scored_at = n_transform
    /\ GetCompositeScore(metrics) > GetCompositeScore(ret.metrics)
    /\ trail[n_transform] # trail[n_transform + 1]
    /\ ret.text = trail[n_transform + 1]

\* C25: a returned call made one scoring call more than it made
\* transformations: on the converged path, on the exhausted path, and with
\* max_iterations = 0 (one scoring call, no transformation).
C25_OneMoreScoringThanTransforms ==
    Returned =>
        /\ n_score = n_transform + 1
        /\ (max_iterations = 0 => n_score = 1 /\ n_transform = 0)

\* An exhausted call that used a budget of two transformations and made
\* three scoring calls.
C25_Witness ==
    /\ pc = "exhausted"
    /\ max_iterations = 2
    /\ n_transform = 2
    /\ n_score = 3

---------------------------------------------------------------------------
(* Further property of calculate_comprehensive_score, checked under        *)
(* SpecLabel.                                                              *)

\* The label the module's threshold table gives a value in hundredths.
TableLabel(var, score) ==
    IF var = "v2" THEN DetectionResistanceV2(score * 100)
    ELSE DetectionResistance(score * 100)

\* C23: in every returned record the detection_resistance is the label the
\* module's threshold table gives the returned composite_score, the value
\* rounded to two decimals; so two records with the same composite_score
\* carry the same label.
C23_LabelOfReturnedScore ==
    /\ ScoredLast =>
        latest.outcome.value.detection_resistance
            = TableLabel(variant, latest.outcome.value.composite_score)
    /\ (TwoScored /\ earlier.outcome.value.composite_score
                        = latest.outcome.value.composite_score) =>
        earlier.outcome.value.detection_resistance
            = latest.outcome.value.detection_resistance

---------------------------------------------------------------------------
(* Property of the lazily created backend, checked under SpecLazy.         *)

\* C24: under concurrent requests the ensemble constructor runs at most
\* once in a process, and every request is handed the same instance.
C24_ConstructedAtMostOnce ==
    /\ n_constructed <= 1
    /\ \A e1 \in handed, e2 \in handed : e1 = e2

---------------------------------------------------------------------------
(* Further properties of recursive_paraphrase, checked under SpecRec.      *)

\* The entry a pass appends: pass j, scored `score`, going on with a text of
\* `len` words.
IsEntryOf(e, j, n, len) ==
    /\ e.pass_number = j
    /\ e.function_used = (j - 1) % n
    /\ e.text_length = len

\* C26: pass_history only ever grows by one entry at its end, one per pass:
\* entry j has pass_number j and function_used (j - 1) mod
\* len(paraphrase_functions); only the last entry may have a score >=
\* target_score; and the returned total_passes is the length of the
\* returned pass_history, the number of passes executed.
C26_HistoryOnePerPass ==
    /\ [](\A j \in 1..Len(pass_history) :
            /\ pass_history[j].pass_number = j
            /\ pass_history[j].function_used = (j - 1) % n_functions
            /\ j < Len(pass_history) => pass_history[j].score < rp_target)
    /\ [](RpReturned =>
            /\ rp_ret.pass_history = pass_history
            /\ rp_ret.total_passes = Len(pass_history)
            /\ Len(pass_history) = n_paraphrase)
    /\ [][\/ pass_history' = pass_history
          \/ /\ Len(pass_history') = Len(pass_history) + 1
             /\ SubSeq(pass_history', 1, Len(pass_history)) = pass_history
             /\ n_paraphrase' = n_paraphrase + 1]_vars

\* A call with one paraphrase function returned after two passes: the
\* second entry used function 0 again and reached the target, the first
\* had not.
C26_Witness ==
    /\ RpReturned
    /\ n_functions = 1
    /\ rp_ret.total_passes = 2
    /\ rp_ret.pass_history[2].function_used = 0
    /\ rp_ret.pass_history[1].score < rp_target
    /\ rp_ret.pass_history[2].score >= rp_target

\* C27: when the paraphrase function of a pass raises, the call goes on:
\* unless the scoring of that pass raises, the current text is unchanged,
\* the pass is scored and appended to pass_history with the length of the
\* unchanged text, and the loop goes to its next pass, or to the final
\* scoring when this was the last pass or the score reached target_score.
C27_ParaphraseErrorIsSwallowed ==
    [][(/\ Len(rp_raised') = Len(rp_raised) + 1
        /\ rp_raised'[Len(rp_raised')])
       => \/ /\ rp_pc' = "raised"
             /\ rp_ret'.raised = "metrics_calculator"
          \/ /\ rp_pc' \in {"for", "final"}
             /\ rp_text' = rp_text
             /\ Len(pass_history') = Len(pass_history) + 1
             /\ IsEntryOf(pass_history'[Len(pass_history')], pass_num + 1,
                          n_functions, TextLength(rp_text))
             /\ rp_pc' = "for" <=>
                    /\ pass_history'[Len(pass_history')].score < rp_target
                    /\ pass_num + 1 < num_passes
             /\ rp_pc' = "for" => pass_num' = pass_num + 1]_vars

\* A call returned the text it was given, of two words, after two passes
\* whose paraphrase functions both raised.
C27_Witness ==
    /\ RpReturned
    /\ rp_raised = <<TRUE, TRUE>>
    /\ rp_ret.total_passes = 2
    /\ rp_ret.current_text = 2
    /\ rp_ret.pass_history[1].text_length = 2
    /\ rp_ret.pass_history[2].text_length = 2

---------------------------------------------------------------------------
(* Property of adaptive_recursive_humanization, checked under SpecAd.      *)

AdReturned == ad_pc = "returned"

\* C28: a call with max_attempts >= 1 that returns has recorded between 1
\* and max_attempts attempts; success is True exactly when the last recorded
\* attempt scored >= target_score; success is False only after exactly
\* max_attempts attempts that all scored below target_score; and the
\* returned text is the humanized text of the last recorded attempt.
C28_AdaptiveAttempts ==
    (AdReturned /\ max_attempts >= 1) =>
        LET history == ad_ret.attempt_history
            n == Len(history)
        IN  /\ history = attempt_history
            /\ n >= 1
            /\ n <= max_attempts
            /\ \A k \in 1..n : history[k].attempt = k
            /\ ad_ret.success <=> history[n].score >= ad_target
            /\ ~ad_ret.success =>
                /\ n = max_attempts
                /\ \A k \in 1..n : history[k].score < ad_target
            /\ ad_ret.current_text = ad_humanized

\* A call given two attempts returned without success: both attempts scored
\* below the target, the second higher than the first, and the text returned
\* is what humanize_func made of the second attempt's paraphrase.
C28_Witness ==
    /\ AdReturned
    /\ max_attempts = 2
    /\ ~ad_ret.success
    /\ Len(ad_ret.attempt_history) = 2
    /\ ad_ret.attempt_history[1].score < ad_ret.attempt_history[2].score
    /\ ad_paraphrased # ad_humanized
    /\ ad_ret.current_text = ad_humanized

---------------------------------------------------------------------------
(* Property of _blend_outputs as multi_model_cascade calls it, checked     *)
(* under SpecCascade.                                                      *)

\* The sentences of the k-th text given to _blend_outputs.
SentencesOf(k) == SplitSentences(blend_texts[k])

\* The number of sentences emitted before sentence pos of text k in the
\* round-robin order: those at an earlier position, and those at position pos
\* of an earlier text.
EmittedBefore(pos, k) ==
    Cardinality({ p \in (1..MaxLen(BlendSentences(blend_texts)))
                            \X (1..Len(blend_texts)) :
                    /\ p[1] <= Len(SentencesOf(p[2]))
                    /\ p[1] < pos \/ (p[1] = pos /\ p[2] < k) })

RECURSIVE SumOfLens(_)
SumOfLens(lists) ==
    IF lists = <<>> THEN 0 ELSE Len(Head(lists)) + SumOfLens(Tail(lists))

\* Every sentence of every text is emitted once, by position first and by
\* text within a position.
RoundRobin ==
    /\ Len(blended) = SumOfLens(BlendSentences(blend_texts))
    /\ \A k \in 1..Len(blend_texts) : \A pos \in 1..Len(SentencesOf(k)) :
        blended[EmittedBefore(pos, k) + 1] = SentencesOf(k)[pos]
    /\ cascade_pc = "blended" => cascade_ret = StrResult(JoinSpace(blended))

\* C29: _blend_outputs on a non-empty list emits every sentence of every
\* text exactly once, by sentence position first and by text index within a
\* position, so the number of sentences blended is the sum of the texts'
\* sentence counts; on an empty list it returns an empty result and does
\* not raise.
C29_BlendRoundRobin ==
    cascade_pc # "idle" =>
        /\ blend_texts # <<>> => RoundRobin
        /\ blend_texts = <<>> =>
            /\ cascade_ret.kind # "raise"
            /\ cascade_pc = "blended" => cascade_ret = StrResult(<<>>)

---------------------------------------------------------------------------
(* Property of AdvancedEnsembleHumanizer.humanize, checked under           *)
(* SpecHumanize.                                                           *)

\* A candidate of w words has at least floor(0.5 * n) words: n / 2 < w + 1.
LongEnough(output, n) == n <= 2 * output.words + 1

\* The candidates of all_outputs that are long enough, in their order.
LongCandidates == SelectSeq(all_outputs, LAMBDA o : LongEnough(o, input_word_count))

=============================================================================
